---- MODULE Spec2Model ----
(***************************************************************************)
(* Traffic monitor: the threshold evaluation of TrafficMonitor             *)
(* (traffic_monitor/monitors/traffic_monitor.py), the persistent           *)
(* notification state of StateManager (traffic_monitor/state_manager.py)   *)
(* and the fan-out of MultiNotifier (traffic_monitor/__init__.py).         *)
(*                                                                         *)
(* Usage is counted in whole GB.  The program stores a month ("%Y-%m") and *)
(* a date (date.isoformat()) only to compare them for equality with the    *)
(* current month and with today, and time never runs backwards: a stored   *)
(* month is kept as ThisMonth or EarlierMonth, a stored date as Today or    *)
(* EarlierDay, and the passing of a day or a month ages the stored values. *)
(***************************************************************************)
EXTENDS Integers, Sequences, FiniteSets, TLC

(***************************************************************************)
(* Bounds of the model.                                                    *)
(***************************************************************************)
MaxUsage == 6
MaxNotifiers == 3
MaxCount == 2

(***************************************************************************)
(* Program constants: the defaults of ThresholdConfig and ReportConfig.    *)
(***************************************************************************)
DefaultTotalLimit == 2000
DefaultInterval == 100
DefaultCriticalPercentage == 90
DailyReportHour == 8

\* A second configuration whose total_limit is not a multiple of interval.
SmallConfig == [total_limit |-> 5, interval |-> 2, critical_percentage |-> 60]

DefaultConfig ==
    [total_limit |-> DefaultTotalLimit, interval |-> DefaultInterval,
     critical_percentage |-> DefaultCriticalPercentage]

ThresholdConfigs == {DefaultConfig, SmallConfig}

\* ReportConfig: the default, and both notifications switched off
ReportConfigs ==
    {[enable_startup_notification |-> TRUE, enable_daily_report |-> TRUE],
     [enable_startup_notification |-> FALSE, enable_daily_report |-> FALSE]}

\* The samples the data provider may return under a configuration.
UsageValues(cfg) ==
    IF cfg = DefaultConfig THEN {50, 150, 1850}
    ELSE 0..MaxUsage

\* datetime.now().strftime("%Y-%m") and a month before it
ThisMonth == "this month"
EarlierMonth == "an earlier month"

\* What one notifier does when its notify() is called.
Outcomes == {"ok", "fail", "raise"}

\* last_daily_report_date: None, today.isoformat() or a day before it
None == "None"
Today == "today"
EarlierDay == "an earlier day"

VARIABLES
    threshold_config,   \* TrafficMonitor.threshold_config
    reporting,          \* MonitorConfig.reporting
    notifiers,          \* MultiNotifier.notifiers
    hour,               \* datetime.now().hour
    running,            \* the monitor process is alive
    state,              \* StateManager.state of the running process
    state_file,         \* the state file on disk
    tick,               \* what the last start or check_traffic did
    scenario,           \* how far the run has followed Scenario
    hist,               \* what was dispatched in this calendar month and day
    dispatch,           \* the last call of MultiNotifier.notify on its own
    provider,           \* the last call of VnStatDataProvider on its own
    loaded,             \* the last load of a state file on its own
    notifier_config,    \* AppConfig.notifiers
    legacy              \* the process of the legacy monitor (src/main.py)

vars == <<threshold_config, reporting, notifiers, hour, running,
          state, state_file, tick, scenario, hist, dispatch, provider, loaded, notifier_config, legacy>>

(***************************************************************************)
(* StateManager                                                            *)
(***************************************************************************)
\* _create_default_state
CreateDefaultState(month) ==
    [current_month |-> month,
     notified_thresholds |-> <<>>,
     critical_notification_sent |-> FALSE,
     last_daily_report_date |-> None]

\* _validate_state: a state of another month is reset
ValidateState(st, month) ==
    IF st.current_month # month
    THEN [st EXCEPT !.current_month = month,
                    !.notified_thresholds = <<>>,
                    !.critical_notification_sent = FALSE,
                    !.last_daily_report_date = None]
    ELSE st

\* the state file: valid is false when it holds the beginning of a write
\* that did not end, which json.load refuses
NoFile == [exists |-> FALSE, valid |-> TRUE,
           content |-> CreateDefaultState(ThisMonth)]

\* _load_state that does not read the file
LoadStateFresh(file, month) == CreateDefaultState(month)

\* _load_state without its try: what the file holds is taken as it is
LoadStateUnguarded(file, month) ==
    IF ~file.exists THEN CreateDefaultState(month)
    ELSE ValidateState(file.content, month)

\* _load_state
LoadState(file, month) ==
    IF ~file.exists THEN CreateDefaultState(month)
    ELSE IF ~file.valid
    THEN \* except Exception: a new state
         CreateDefaultState(month)
    ELSE ValidateState(file.content, month)

\* _save_state
SaveState(st) == [exists |-> TRUE, valid |-> TRUE, content |-> st]

\* _save_state that ends after open(self.state_file, 'w') has truncated the
\* file and before json.dump has written all of it
TornSave(st) == [exists |-> TRUE, valid |-> FALSE, content |-> st]

InList(x, list) == \E i \in 1..Len(list) : list[i] = x

\* add_notified_threshold that saves without recording the threshold
AddNotifiedThresholdLost(st, threshold) ==
    [state |-> st, saved |-> TRUE]

\* add_notified_threshold: the new state and whether it was saved
AddNotifiedThreshold(st, threshold) ==
    IF ~InList(threshold, st.notified_thresholds)
    THEN [state |-> [st EXCEPT !.notified_thresholds =
                        SortSeq(Append(st.notified_thresholds, threshold),
                                LAMBDA a, b : a < b)],
          saved |-> TRUE]
    ELSE [state |-> st, saved |-> FALSE]

\* set_critical_notification_sent that saves without setting the flag
SetCriticalNotificationSentLost(st, sent) ==
    [state |-> st, saved |-> TRUE]

\* set_critical_notification_sent
SetCriticalNotificationSent(st, sent) ==
    [state |-> [st EXCEPT !.critical_notification_sent = sent], saved |-> TRUE]

\* set_last_daily_report_date
SetLastDailyReportDate(st, date) ==
    [state |-> [st EXCEPT !.last_daily_report_date = date], saved |-> TRUE]

(***************************************************************************)
(* MultiNotifier                                                           *)
(***************************************************************************)
RECURSIVE NotifyLoop(_, _, _, _)
\* the for loop of MultiNotifier.notify from notifier i on
NotifyLoop(ns, outs, i, acc) ==
    IF i > Len(ns) THEN acc
    ELSE IF outs[i] = "raise"
    THEN \* except Exception: results.append(False)
         NotifyLoop(ns, outs, i + 1,
            [acc EXCEPT !.invoked = Append(@, ns[i]),
                        !.results = Append(@, FALSE)])
    ELSE NotifyLoop(ns, outs, i + 1,
            [acc EXCEPT !.invoked = Append(@, ns[i]),
                        !.results = Append(@, outs[i] = "ok")])

RECURSIVE NotifyLoopUncaught(_, _, _, _)
\* the for loop without its try: the first exception ends it
NotifyLoopUncaught(ns, outs, i, acc) ==
    IF i > Len(ns) THEN acc
    ELSE IF outs[i] = "raise"
    THEN [acc EXCEPT !.invoked = Append(@, ns[i]), !.propagated = TRUE]
    ELSE NotifyLoopUncaught(ns, outs, i + 1,
            [acc EXCEPT !.invoked = Append(@, ns[i]),
                        !.results = Append(@, outs[i] = "ok")])

\* MultiNotifier.notify without the try around notifier.notify
MultiNotifierNotifyUncaught(ns, outs) ==
    IF Len(ns) = 0
    THEN [invoked |-> <<>>, results |-> <<>>, ret |-> FALSE, propagated |-> FALSE]
    ELSE LET r == NotifyLoopUncaught(ns, outs, 1,
                    [invoked |-> <<>>, results |-> <<>>, ret |-> FALSE,
                     propagated |-> FALSE])
         IN  [r EXCEPT !.ret = ~r.propagated
                                /\ \E j \in 1..Len(r.results) : r.results[j]]

RECURSIVE NotifyLoopRetry(_, _, _, _)
\* the for loop with a second attempt at a notifier that failed
NotifyLoopRetry(ns, outs, i, acc) ==
    IF i > Len(ns) THEN acc
    ELSE NotifyLoopRetry(ns, outs, i + 1,
            [acc EXCEPT !.invoked = IF outs[i] = "ok" THEN Append(@, ns[i])
                                    ELSE Append(Append(@, ns[i]), ns[i]),
                        !.results = Append(@, outs[i] = "ok")])

\* MultiNotifier.notify with that loop
MultiNotifierNotifyRetry(ns, outs) ==
    IF Len(ns) = 0
    THEN [invoked |-> <<>>, results |-> <<>>, ret |-> FALSE, propagated |-> FALSE]
    ELSE LET r == NotifyLoopRetry(ns, outs, 1,
                    [invoked |-> <<>>, results |-> <<>>, ret |-> FALSE,
                     propagated |-> FALSE])
         IN  [r EXCEPT !.ret = \E j \in 1..Len(r.results) : r.results[j]]

\* MultiNotifier.notify: who was invoked, what was collected, what is
\* returned and whether an exception reached the caller
MultiNotifierNotify(ns, outs) ==
    IF Len(ns) = 0
    THEN [invoked |-> <<>>, results |-> <<>>, ret |-> FALSE, propagated |-> FALSE]
    ELSE LET r == NotifyLoop(ns, outs, 1,
                    [invoked |-> <<>>, results |-> <<>>, ret |-> FALSE,
                     propagated |-> FALSE])
         IN  [r EXCEPT !.ret = \E j \in 1..Len(r.results) : r.results[j]]

(***************************************************************************)
(* TrafficMonitor                                                          *)
(***************************************************************************)
\* __init__: critical_threshold = total_limit * critical_percentage / 100,
\* and _is_critical: current_usage >= critical_threshold
IsCritical(cfg, current_usage) ==
    current_usage * 100 >= cfg.total_limit * cfg.critical_percentage

Abs(x) == IF x < 0 THEN 0 - x ELSE x

\* int(a / b) of Python, b not 0: the quotient rounded towards zero
IntDiv(a, b) ==
    IF (a >= 0) = (b > 0) THEN Abs(a) \div Abs(b)
    ELSE 0 - (Abs(a) \div Abs(b))

RECURSIVE ShouldNotifyFrom(_, _, _, _)
\* the for loop of _should_notify from index i on; 0 stands for None
ShouldNotifyFrom(cfg, current_usage, notified_thresholds, i) ==
    IF i > IntDiv(cfg.total_limit, cfg.interval) THEN 0
    ELSE LET threshold == i * cfg.interval
         IN  IF current_usage >= threshold
                /\ ~InList(threshold, notified_thresholds)
             THEN threshold
             ELSE ShouldNotifyFrom(cfg, current_usage, notified_thresholds, i + 1)

RECURSIVE ShouldNotifyStrictFrom(_, _, _, _)
ShouldNotifyStrictFrom(cfg, current_usage, notified_thresholds, i) ==
    IF i > IntDiv(cfg.total_limit, cfg.interval) THEN 0
    ELSE LET threshold == i * cfg.interval
         IN  IF current_usage > threshold
                /\ ~InList(threshold, notified_thresholds)
             THEN threshold
             ELSE ShouldNotifyStrictFrom(cfg, current_usage,
                                         notified_thresholds, i + 1)

\* _should_notify with current_usage > threshold
ShouldNotifyStrict(cfg, current_usage, notified_thresholds) ==
    ShouldNotifyStrictFrom(cfg, current_usage, notified_thresholds, 1)

RECURSIVE ShouldNotifyUnboundedFrom(_, _, _, _)
ShouldNotifyUnboundedFrom(cfg, current_usage, notified_thresholds, i) ==
    IF i * cfg.interval > current_usage THEN 0
    ELSE LET threshold == i * cfg.interval
         IN  IF ~InList(threshold, notified_thresholds)
             THEN threshold
             ELSE ShouldNotifyUnboundedFrom(cfg, current_usage,
                                            notified_thresholds, i + 1)

\* _should_notify with a loop that ends at the usage and not at
\* int(total_limit / interval)
ShouldNotifyUnbounded(cfg, current_usage, notified_thresholds) ==
    ShouldNotifyUnboundedFrom(cfg, current_usage, notified_thresholds, 1)

RECURSIVE ShouldNotifyHighestFrom(_, _, _, _)
ShouldNotifyHighestFrom(cfg, current_usage, notified_thresholds, i) ==
    IF i < 1 THEN 0
    ELSE LET threshold == i * cfg.interval
         IN  IF current_usage >= threshold
                /\ ~InList(threshold, notified_thresholds)
             THEN threshold
             ELSE ShouldNotifyHighestFrom(cfg, current_usage,
                                          notified_thresholds, i - 1)

\* _should_notify with a loop that runs from the highest mark down
ShouldNotifyHighest(cfg, current_usage, notified_thresholds) ==
    ShouldNotifyHighestFrom(cfg, current_usage, notified_thresholds,
                            IntDiv(cfg.total_limit, cfg.interval))

\* _should_notify
ShouldNotify(cfg, current_usage, notified_thresholds) ==
    ShouldNotifyFrom(cfg, current_usage, notified_thresholds, 1)

(***************************************************************************)
(* One run of a handler is a context: the state and the file as they are   *)
(* so far, the operations done so far, and how the run ended.  A run ends   *)
(* early when the process is killed or interrupted: after the operations   *)
(* crash.after (NoCrash: never), within the write of the state file of the *)
(* next one if crash.tear, by a KeyboardInterrupt if crash.interrupt.       *)
(* crash.lost are the writes of the state file, counted within the run,    *)
(* that raise an OSError: in open(), or if crash.partial in json.dump      *)
(* after open() has truncated the file.                                    *)
(***************************************************************************)
NoCrash == [after |-> 0 - 1, tear |-> FALSE, interrupt |-> FALSE,
            lost |-> {}, partial |-> FALSE]

\* the operations that write the state file
Saves == {"add_notified_threshold", "set_critical_notification_sent",
          "set_last_daily_report_date"}

Operation(name, arg, sent) == [op |-> name, arg |-> arg, sent |-> sent]

NewContext(st, file, crash) ==
    [state |-> st, file |-> file, ops |-> <<>>, budget |-> crash.after,
     tear |-> crash.tear, crashed |-> FALSE, raised |-> FALSE,
     saves |-> 0, lost |-> crash.lost, partial |-> crash.partial]

Stopped(ctx) == ctx.crashed \/ ctx.raised

\* what a setter of StateManager does to the state, and whether it calls
\* _save_state
Setter(st, name, arg) ==
    CASE name = "add_notified_threshold" -> AddNotifiedThreshold(st, arg)
      [] name = "set_critical_notification_sent" ->
            SetCriticalNotificationSent(st, TRUE)
      [] name = "set_last_daily_report_date" ->
            SetLastDailyReportDate(st, Today)
      [] OTHER -> [state |-> st, saved |-> FALSE]

\* _save_state of the write number n of a run: the except Exception of
\* _save_state logs an OSError and returns
Written(ctx, n, st) ==
    IF n \notin ctx.lost THEN SaveState(st)
    ELSE IF ctx.partial THEN TornSave(st)
    ELSE ctx.file

\* the effect of a setter that forgets the new state when its write fails
EffectForgetful(ctx, name, arg) ==
    LET r == Setter(ctx.state, name, arg)
        n == ctx.saves + 1
    IN  IF ~r.saved THEN ctx
        ELSE [ctx EXCEPT !.state = IF n \in ctx.lost THEN @ ELSE r.state,
                         !.saves = n,
                         !.file = Written(ctx, n, r.state)]

\* the effect of one operation on the state and the file
Effect(ctx, name, arg) ==
    LET r == Setter(ctx.state, name, arg)
        n == ctx.saves + 1
    IN  IF ~r.saved THEN ctx
        ELSE [ctx EXCEPT !.state = r.state,
                         !.saves = n,
                         !.file = Written(ctx, n, r.state)]

\* the operation during which the process ends: its write of the state
\* file, if it makes one and the end comes within it, is left unfinished
Torn(ctx, name, arg) ==
    LET e == Effect(ctx, name, arg)
    IN  [ctx EXCEPT !.crashed = TRUE,
                    !.file = IF ctx.tear /\ e.saves # ctx.saves
                             THEN TornSave(e.state) ELSE @]

\* the next operation of the handler, unless the run has ended before it
Do(ctx, name, arg, sent) ==
    IF Stopped(ctx) THEN ctx
    ELSE IF ctx.budget = 0 THEN Torn(ctx, name, arg)
    ELSE [Effect(ctx, name, arg) EXCEPT
            \* the sent of a setter is whether its write reached the file
            !.ops = Append(@, Operation(name, arg,
                        IF name \in Saves
                        THEN (ctx.saves + 1) \notin ctx.lost ELSE sent)),
            !.budget = IF @ < 0 THEN @ ELSE @ - 1]

\* self.notifier.notify(...): d is what the notifier does in this run
Notify(ctx, kind, arg, d) ==
    LET c == Do(ctx, kind, arg, d.ret)
    IN  IF Stopped(ctx) \/ c.crashed THEN c
        ELSE [c EXCEPT !.raised = d.propagated]

(***************************************************************************)
(* The texts of the notifications.  Of a text the model keeps the numbers  *)
(* and the warnings it shows; a builder returns the context it leaves, the *)
(* text, and whether it raised.                                            *)
(***************************************************************************)
NoText == [kind |-> "none"]

RECURSIVE NextThresholdFrom(_, _, _)
\* the for loop of _get_status_summary: the first mark above the usage, 0
\* if there is none
NextThresholdFrom(cfg, current_usage, i) ==
    IF i > IntDiv(cfg.total_limit, cfg.interval) THEN 0
    ELSE IF current_usage < i * cfg.interval THEN i * cfg.interval
    ELSE NextThresholdFrom(cfg, current_usage, i + 1)

\* critical_threshold - current_usage if it is positive, else 0, in
\* hundredths of a GB
RemainingToCritical(cfg, current_usage) ==
    IF current_usage * 100 < cfg.total_limit * cfg.critical_percentage
    THEN cfg.total_limit * cfg.critical_percentage - current_usage * 100
    ELSE 0

\* _get_status_summary that records the next mark as notified
GetStatusSummaryRecording(ctx, cfg, current_usage, trendOk) ==
    IF cfg.total_limit = 0 \/ cfg.interval = 0
    THEN [ctx |-> ctx, raised |-> TRUE, text |-> NoText]
    ELSE [ctx |-> IF NextThresholdFrom(cfg, current_usage, 1) > 0
                  THEN Do(ctx, "add_notified_threshold",
                          NextThresholdFrom(cfg, current_usage, 1), FALSE)
                  ELSE ctx,
          raised |-> FALSE,
          text |-> [kind |-> "summary",
                    percentage |-> IntDiv(current_usage * 100, cfg.total_limit),
                    next_threshold |-> NextThresholdFrom(cfg, current_usage, 1),
                    remaining_to_critical |->
                        RemainingToCritical(cfg, current_usage),
                    critical |-> IsCritical(cfg, current_usage),
                    trend |-> trendOk]]

\* _get_status_summary; trendOk is whether get_daily_usage returned, the
\* text goes without the trend if it raised
GetStatusSummary(ctx, cfg, current_usage, trendOk) ==
    IF cfg.total_limit = 0 \/ cfg.interval = 0
    THEN \* current_usage / self.total_limit, self.total_limit /
         \* self.interval: ZeroDivisionError
         [ctx |-> ctx, raised |-> TRUE, text |-> NoText]
    ELSE [ctx |-> ctx, raised |-> FALSE,
          text |-> [kind |-> "summary",
                    percentage |-> IntDiv(current_usage * 100, cfg.total_limit),
                    next_threshold |-> NextThresholdFrom(cfg, current_usage, 1),
                    remaining_to_critical |->
                        RemainingToCritical(cfg, current_usage),
                    critical |-> IsCritical(cfg, current_usage),
                    trend |-> trendOk]]

\* _get_daily_report; fetchOk is whether its own calls of the provider
\* returned: if not, or if it divides by a total_limit of 0, its except
\* makes the text an error message
GetDailyReport(ctx, cfg, fetchOk, current_usage) ==
    IF ~fetchOk \/ cfg.total_limit = 0
    THEN [ctx |-> ctx, raised |-> FALSE, text |-> [kind |-> "error"]]
    ELSE [ctx |-> ctx, raised |-> FALSE,
          text |-> [kind |-> "report",
                    percentage |-> IntDiv(current_usage * 100, cfg.total_limit),
                    critical |-> IsCritical(cfg, current_usage)]]

\* send_daily_report without its try: an exception of its fetch of the usage
\* passes to check_traffic
SendDailyReportUncaught(ctx, cfg, rep, now_hour, reportFetchOk, d) ==
    IF Stopped(ctx) THEN ctx
    ELSE IF ~rep.enable_daily_report THEN ctx
    ELSE IF ctx.state.last_daily_report_date = Today THEN ctx
    ELSE IF now_hour # DailyReportHour THEN ctx
    ELSE IF ~reportFetchOk \/ cfg.total_limit = 0
    THEN [ctx EXCEPT !.raised = TRUE]
    ELSE LET report == GetDailyReport(ctx, cfg, TRUE, 0)
             sent == Notify(report.ctx, "DailyReport", 0, d)
         IN  Do(sent, "set_last_daily_report_date", 0, FALSE)

\* send_daily_report
SendDailyReport(ctx, cfg, rep, now_hour, reportFetchOk, d) ==
    IF Stopped(ctx) THEN ctx
    ELSE IF ~rep.enable_daily_report THEN ctx
    ELSE IF ctx.state.last_daily_report_date = Today THEN ctx
    ELSE IF now_hour # DailyReportHour THEN ctx
    ELSE IF ~reportFetchOk THEN ctx
    ELSE IF cfg.total_limit = 0
    THEN \* current_usage / self.total_limit: ZeroDivisionError, logged
         ctx
    ELSE LET report == GetDailyReport(ctx, cfg, TRUE, 0)
             sent == Notify(report.ctx, "DailyReport", 0, d)
             done == Do(sent, "set_last_daily_report_date", 0, FALSE)
         IN  \* except Exception: logged, check_traffic goes on
             [done EXCEPT !.raised = FALSE]

\* send_startup_notification followed by the critical step of a tick
SendStartupNotificationCritical(ctx, cfg, rep, providerOk, current_usage, d) ==
    IF ~rep.enable_startup_notification THEN ctx
    ELSE IF ~providerOk THEN ctx
    ELSE IF cfg.total_limit = 0 \/ cfg.interval = 0 THEN ctx
    ELSE LET sent == Notify(ctx, "StartupStatus", current_usage, d)
         IN  IF IsCritical(cfg, current_usage)
                /\ ~sent.state.critical_notification_sent
             THEN Do(Do(Notify(sent, "CriticalReached", current_usage, d),
                        "set_critical_notification_sent", 1, FALSE),
                     "execute", 0, TRUE)
             ELSE sent

\* send_startup_notification
SendStartupNotification(ctx, cfg, rep, providerOk, current_usage, d) ==
    IF ~rep.enable_startup_notification THEN ctx
    ELSE IF ~providerOk
    THEN \* get_current_month_usage raised: except Exception, logged
         ctx
    ELSE LET summary == GetStatusSummary(ctx, cfg, current_usage, TRUE)
         IN  IF summary.raised
             THEN \* ZeroDivisionError: except Exception, logged
                  ctx
             ELSE Notify(summary.ctx, "StartupStatus", current_usage, d)

\* the threshold step with an if in the place of the while: one
\* notification in a tick
ThresholdOnce(ctx, cfg, current_usage, d) ==
    IF Stopped(ctx) THEN ctx
    ELSE IF cfg.interval = 0 THEN [ctx EXCEPT !.raised = TRUE]
    ELSE LET threshold == ShouldNotify(cfg, current_usage,
                                       ctx.state.notified_thresholds)
         IN  IF threshold = 0 THEN ctx
             ELSE Do(Notify(ctx, "ThresholdCrossed", threshold, d),
                     "add_notified_threshold", threshold, FALSE)

RECURSIVE ThresholdLoop(_, _, _, _)
\* the while loop of check_traffic
ThresholdLoop(ctx, cfg, current_usage, d) ==
    IF Stopped(ctx) THEN ctx
    ELSE IF cfg.interval = 0
    THEN \* total_limit / interval in _should_notify: ZeroDivisionError,
         \* which the except of check_traffic logs
         [ctx EXCEPT !.raised = TRUE]
    ELSE LET threshold == ShouldNotify(cfg, current_usage,
                                       ctx.state.notified_thresholds)
         IN  IF threshold = 0 THEN ctx
             ELSE ThresholdLoop(
                    Do(Notify(ctx, "ThresholdCrossed", threshold, d),
                       "add_notified_threshold", threshold, FALSE),
                    cfg, current_usage, d)

\* what ShutdownAction.execute returns: True, or False after a failed
\* command or an exception, which it catches
ActionOutcomes == {"ok", "fail"}

\* the critical step as the else of the threshold step: skipped in a tick
\* that notified a threshold
CriticalStepElse(ctx, cfg, current_usage, d, act) ==
    IF Stopped(ctx) THEN ctx
    ELSE IF /\ IsCritical(cfg, current_usage)
            /\ ~ctx.state.critical_notification_sent
            /\ \A i \in 1..Len(ctx.ops) : ctx.ops[i].op # "ThresholdCrossed"
    THEN Do(Do(Notify(ctx, "CriticalReached", current_usage, d),
               "set_critical_notification_sent", 1, FALSE),
            "execute", 0, act = "ok")
    ELSE ctx

\* the critical step with the action executed before the flag is set
CriticalStepActionFirst(ctx, cfg, current_usage, d, act) ==
    IF Stopped(ctx) THEN ctx
    ELSE IF IsCritical(cfg, current_usage)
            /\ ~ctx.state.critical_notification_sent
    THEN Do(Do(Notify(ctx, "CriticalReached", current_usage, d),
               "execute", 0, act = "ok"),
            "set_critical_notification_sent", 1, FALSE)
    ELSE ctx

\* the critical step of check_traffic; the sent of the operation execute
\* is what execute() returned
CriticalStep(ctx, cfg, current_usage, d, act) ==
    IF Stopped(ctx) THEN ctx
    ELSE IF IsCritical(cfg, current_usage)
            /\ ~ctx.state.critical_notification_sent
    THEN Do(Do(Notify(ctx, "CriticalReached", current_usage, d),
               "set_critical_notification_sent", 1, FALSE),
            "execute", 0, act = "ok")
    ELSE ctx

\* check_traffic with the daily report sent before the usage is fetched
CheckTrafficReportFirst(ctx, cfg, rep, now_hour, providerOk, current_usage, reportFetchOk, d, act) ==
    LET reported == SendDailyReport(ctx, cfg, rep, now_hour, reportFetchOk, d)
    IN  IF ~providerOk THEN reported
        ELSE CriticalStep(ThresholdLoop(reported, cfg, current_usage, d),
                          cfg, current_usage, d, act)

\* check_traffic without its try: an exception ends the process
CheckTrafficUncaught(ctx, cfg, rep, now_hour, providerOk, current_usage, reportFetchOk, d, act) ==
    IF ~providerOk THEN [ctx EXCEPT !.crashed = TRUE]
    ELSE LET r == CriticalStep(
                    ThresholdLoop(
                        SendDailyReport(ctx, cfg, rep, now_hour, reportFetchOk, d),
                        cfg, current_usage, d),
                    cfg, current_usage, d, act)
         IN  [r EXCEPT !.crashed = @ \/ r.raised]

\* check_traffic
CheckTraffic(ctx, cfg, rep, now_hour, providerOk, current_usage, reportFetchOk, d, act) ==
    IF ~providerOk
    THEN \* get_current_month_usage raised: except Exception, logged
         ctx
    ELSE CriticalStep(
            ThresholdLoop(
                SendDailyReport(ctx, cfg, rep, now_hour, reportFetchOk, d),
                cfg, current_usage, d),
            cfg, current_usage, d, act)

(***************************************************************************)
(* The system: the clock, the process and its ticks.                       *)
(***************************************************************************)
NoState == CreateDefaultState(ThisMonth)

\* the usage of the ticks of the scenario of the default configuration
Scenario == <<50, 150, 1850>>
Off == 0 - 1

\* tick.same: the step before was a tick that ran to its end with the same
\* usage
\* tick.raised: the except of check_traffic caught an exception after the
\* fetch; tick.exit: what run() returned if it ended within the tick
Idle == [kind |-> "none", usage |-> 0, hour |-> 0, before |-> NoState,
         ops |-> <<>>, done |-> FALSE, skipped |-> FALSE, same |-> FALSE,
         raised |-> FALSE, exit |-> Off, text |-> NoText]

SameUsage(t, current_usage) ==
    t.kind = "tick" /\ t.done /\ ~t.skipped /\ t.usage = current_usage

NoDispatch == [called |-> FALSE, notifiers |-> <<>>, outs |-> <<>>,
               invoked |-> <<>>, results |-> <<>>, ret |-> FALSE,
               propagated |-> FALSE]

\* no call of the data provider yet
NoProvider == [called |-> "none"]

\* NotifiersConfig: of the email notifier whether it is enabled and which
\* of its required fields are empty, of the Discord notifier whether it is
\* enabled and whether it has a webhook_url.  The default: email enabled.
DefaultNotifiersConfig ==
    [email |-> [enabled |-> TRUE, missing |-> {}],
     discord |-> [enabled |-> FALSE, webhook_url |-> TRUE]]

\* no load of a state file on its own yet
NoLoad == [called |-> FALSE]

\* the legacy TrafficMonitor.__init__: the notification state is kept in
\* the object, and nowhere else
LegacyNewState ==
    [notified_thresholds |-> <<>>, critical_notification_sent |-> FALSE,
     last_daily_report_date |-> None]

\* the legacy monitor is not running.  Of a running one: its state, what
\* its start or its last tick did, and how often it has sent the critical
\* notification and called the action since it started
NoLegacy ==
    [running |-> FALSE, state |-> LegacyNewState, kind |-> "none", usage |-> 0,
     before |-> LegacyNewState, ops |-> <<>>, skipped |-> FALSE,
     criticals |-> 0, executes |-> 0]

\* the notifiers main() can add
NotifierNames == {"email", "discord"}

NewHist ==
    [marks |-> {}, failed |-> {}, crit |-> FALSE, critFailed |-> FALSE,
     critSeen |-> FALSE, critEvents |-> 0, executes |-> 0,
     execFailed |-> FALSE, reports |-> 0, reportFailed |-> FALSE,
     preMarks |-> {}, preCrit |-> FALSE, seen |-> Off]

\* before the process is started for the first time: no state file, and the
\* clock in the report hour of some day
InitWith(cfgs, ns) ==
    /\ threshold_config \in cfgs
    /\ reporting \in ReportConfigs
    /\ notifiers = ns
    /\ hour = DailyReportHour
    /\ running = FALSE
    /\ state = NoState
    /\ state_file = NoFile
    /\ tick = Idle
    /\ scenario = Off
    /\ hist = NewHist
    /\ dispatch = NoDispatch
    /\ provider = NoProvider
    /\ loaded = NoLoad
    /\ notifier_config = DefaultNotifiersConfig
    /\ legacy = NoLegacy

\* main() with the default notifiers: email enabled, Discord disabled
Init == InitWith(ThresholdConfigs, <<"email">>)

\* main() and TrafficMonitor.__init__: StateManager() loads the state; then
\* run() sends the startup notification
Start(current_usage, providerOk, outs) ==
    /\ ~running
    /\ running' = TRUE
    /\ \E st \in {LoadState(state_file, ThisMonth)} :
       \E d \in {MultiNotifierNotify(notifiers, outs)} :
       \E run \in {SendStartupNotification(
                        NewContext(st, state_file, NoCrash), threshold_config,
                        reporting, providerOk, current_usage, d)} :
           /\ state' = run.state
           /\ state_file' = run.file
           /\ tick' = [kind |-> "start", usage |-> current_usage, hour |-> hour,
                       before |-> st, ops |-> run.ops, done |-> TRUE,
                       skipped |-> ~providerOk, same |-> FALSE,
                       raised |-> FALSE, exit |-> Off, text |-> NoText]
    /\ scenario' = IF /\ threshold_config = DefaultConfig
                      /\ state'.notified_thresholds = <<>>
                      /\ ~state'.critical_notification_sent
                   THEN 0 ELSE Off
    /\ UNCHANGED <<threshold_config, reporting, notifiers, hour, dispatch, provider, loaded, notifier_config, legacy>>

\* KeyboardInterrupt during the sleep of run(), or the host going down
Stop ==
    /\ running
    /\ running' = FALSE
    /\ state' = NoState
    /\ tick' = Idle
    /\ scenario' = Off
    /\ UNCHANGED <<threshold_config, reporting, notifiers, hour, state_file,
                   dispatch, provider, loaded, notifier_config, legacy>>

\* one iteration of the loop of run(): check_traffic.  crash = NoCrash is a
\* run to the end; otherwise the process ends within the tick, and run()
\* returns 0 if a KeyboardInterrupt ended it.
Tick(current_usage, providerOk, reportFetchOk, outs, act, crash) ==
    /\ running
    /\ \E d \in {MultiNotifierNotify(notifiers, outs)} :
       \E run \in {CheckTraffic(NewContext(state, state_file, crash),
                                threshold_config, reporting, hour, providerOk,
                                current_usage, reportFetchOk, d, act)} :
           /\ running' = ~run.crashed
           /\ state' = IF run.crashed THEN NoState ELSE run.state
           /\ state_file' = run.file
           /\ tick' = [kind |-> "tick", usage |-> current_usage,
                       hour |-> hour, before |-> state, ops |-> run.ops,
                       done |-> ~run.crashed, skipped |-> ~providerOk,
                       same |-> providerOk /\ SameUsage(tick, current_usage),
                       raised |-> run.raised,
                       exit |-> IF run.crashed /\ crash.interrupt
                                THEN 0 ELSE Off,
                       text |-> NoText]
    /\ scenario' = IF /\ scenario \in 0..(Len(Scenario) - 1)
                      /\ tick'.done /\ ~tick'.skipped
                      /\ current_usage = Scenario[scenario + 1]
                   THEN scenario + 1 ELSE Off
    /\ UNCHANGED <<threshold_config, reporting, notifiers, hour, dispatch, provider, loaded, notifier_config, legacy>>

\* a stored date after midnight
NextDayDate(date) == IF date = Today THEN EarlierDay ELSE date

\* a stored state after midnight, and after the midnight that ends the month
Aged(st, newMonth) ==
    [st EXCEPT !.last_daily_report_date = NextDayDate(@),
               !.current_month = IF newMonth THEN EarlierMonth ELSE @]

AgedFile(file, newMonth) == [file EXCEPT !.content = Aged(@, newMonth)]

\* time passes within the day: out of the report hour
NextHour ==
    /\ hour = DailyReportHour
    /\ hour' = DailyReportHour + 1
    /\ tick' = Idle
    /\ UNCHANGED <<threshold_config, reporting, notifiers, running, state,
                   state_file, scenario, dispatch, provider, loaded, notifier_config, legacy>>

\* midnight and the hours to the report hour of the next day, a day of the
\* same month or the first of the next
NextDay(newMonth) ==
    /\ hour' = DailyReportHour
    /\ state' = IF running THEN Aged(state, newMonth) ELSE state
    /\ state_file' = IF state_file.exists THEN AgedFile(state_file, newMonth)
                     ELSE state_file
    /\ tick' = Idle
    /\ UNCHANGED <<threshold_config, reporting, notifiers, running, scenario,
                   dispatch, provider, loaded, notifier_config, legacy>>

OutcomesOf(ns) == [1..Len(ns) -> Outcomes]

AllOk(ns) == [i \in 1..Len(ns) |-> "ok"]

\* the report's own fetch of the usage happens only when a report is due
ReportDue ==
    /\ reporting.enable_daily_report
    /\ state.last_daily_report_date # Today
    /\ hour = DailyReportHour

StartStep ==
    \/ \E u \in UsageValues(threshold_config), outs \in OutcomesOf(notifiers) :
            /\ reporting.enable_startup_notification
            /\ Start(u, TRUE, outs)
    \/ Start(0, FALSE, AllOk(notifiers))

\* the critical step calls execute() only when it has something to do
ActionOutcomesAt(u) ==
    IF IsCritical(threshold_config, u) /\ ~state.critical_notification_sent
    THEN ActionOutcomes ELSE {"ok"}

TickStep ==
    \/ \E u \in UsageValues(threshold_config), outs \in OutcomesOf(notifiers),
          rok \in (IF ReportDue THEN BOOLEAN ELSE {TRUE}) :
       \E act \in ActionOutcomesAt(u) :
            Tick(u, TRUE, rok, outs, act, NoCrash)
    \/ Tick(0, FALSE, TRUE, AllOk(notifiers), "ok", NoCrash)

(***************************************************************************)
(* The history of the current calendar month and day: which marks and      *)
(* which critical notification were recorded, which of them after a failed *)
(* dispatch, which before the last start of the process, and how often the *)
(* critical notification, the shutdown action and the daily report         *)
(* happened.  It is kept by SpecHist and SpecCrash, and left alone by Spec.*)
(***************************************************************************)
Min(a, b) == IF a < b THEN a ELSE b

Count(ops, name) == Cardinality({i \in 1..Len(ops) : ops[i].op = name})

Args(ops, name) == {ops[i].arg : i \in {j \in 1..Len(ops) : ops[j].op = name}}

Failed(ops, name) ==
    {ops[i].arg : i \in {j \in 1..Len(ops) : ops[j].op = name /\ ~ops[j].sent}}

\* the events of a run, of one kind, in the order of their dispatch
Events(ops, kind) == SelectSeq(ops, LAMBDA o : o.op = kind)

AfterTick(h, cfg, t) ==
    [h EXCEPT
        !.marks = @ \cup Args(t.ops, "add_notified_threshold"),
        !.failed = @ \cup (Failed(t.ops, "ThresholdCrossed")
                           \cap Args(t.ops, "add_notified_threshold")),
        !.crit = @ \/ Count(t.ops, "set_critical_notification_sent") > 0,
        !.critFailed = @ \/ (/\ Failed(t.ops, "CriticalReached") # {}
                             /\ Count(t.ops, "set_critical_notification_sent") > 0),
        !.critSeen = @ \/ (t.done /\ ~t.skipped /\ IsCritical(cfg, t.usage)),
        !.critEvents = Min(MaxCount, @ + Count(t.ops, "CriticalReached")),
        !.executes = Min(MaxCount, @ + Count(t.ops, "execute")),
        !.reports = Min(MaxCount, @ + Count(t.ops, "DailyReport")),
        !.reportFailed = @ \/ (/\ Failed(t.ops, "DailyReport") # {}
                               /\ Count(t.ops, "set_last_daily_report_date") > 0)]

\* the same, of the critical step alone
AfterTickCritical(h, cfg, t) ==
    [h EXCEPT
        !.critSeen = @ \/ (t.done /\ ~t.skipped /\ IsCritical(cfg, t.usage)),
        !.critEvents = Min(MaxCount, @ + Count(t.ops, "CriticalReached")),
        !.executes = Min(MaxCount, @ + Count(t.ops, "execute"))]

\* the same, of the shutdown action alone
AfterTickAction(h, t) ==
    [h EXCEPT !.execFailed = @ \/ Failed(t.ops, "execute") # {}]

\* the same, of the usage alone: seen is the highest usage a tick of this
\* calendar month has fetched
AfterTickUsage(h, t) ==
    [h EXCEPT !.seen = IF t.done /\ ~t.skipped /\ t.usage > @
                       THEN t.usage ELSE @]

\* the same, of the marks alone
AfterTickMarks(h, t) ==
    [h EXCEPT !.marks = @ \cup Args(t.ops, "add_notified_threshold")]

AtStart(h) == [h EXCEPT !.preMarks = h.marks, !.preCrit = h.crit]

AtMidnight(h, newMonth) ==
    IF newMonth THEN NewHist
    ELSE [h EXCEPT !.reports = 0, !.reportFailed = FALSE]

(***************************************************************************)
(* Specifications                                                          *)
(***************************************************************************)
\* the monitor in normal operation: ticks that run to their end, stops
\* between the ticks and restarts
Next ==
    \/ StartStep /\ UNCHANGED hist
    \/ Stop /\ UNCHANGED hist
    \/ TickStep /\ UNCHANGED hist
    \/ NextHour /\ UNCHANGED hist
    \/ \E newMonth \in BOOLEAN : NextDay(newMonth) /\ UNCHANGED hist

Spec == Init /\ [][Next]_vars

\* the same, with the history of the calendar month and day
NextHist ==
    \/ StartStep /\ hist' = AtStart(hist)
    \/ Stop /\ UNCHANGED hist
    \/ TickStep /\ hist' = AfterTick(hist, threshold_config, tick')
    \/ NextHour /\ UNCHANGED hist
    \/ \E newMonth \in BOOLEAN :
            NextDay(newMonth) /\ hist' = AtMidnight(hist, newMonth)

SpecHist == Init /\ [][NextHist]_vars

\* a tick within which the process ends, after fewer operations than the
\* tick would do, and if tear within the write of the next one
EndsWithin(tear, interrupt) ==
    \E u \in UsageValues(threshold_config), outs \in OutcomesOf(notifiers),
       rok \in (IF ReportDue THEN BOOLEAN ELSE {TRUE}) :
    \E full \in {CheckTraffic(NewContext(state, state_file, NoCrash),
                              threshold_config, reporting, hour, TRUE, u, rok,
                              MultiNotifierNotify(notifiers, outs), "ok")} :
    \E after \in 0..(Len(full.ops) - 1) :
        /\ tear => full.ops[after + 1].op \in Saves
        /\ Tick(u, TRUE, rok, outs, "ok",
                [NoCrash EXCEPT !.after = after, !.tear = tear,
                                !.interrupt = interrupt])

\* the process is killed, or the host goes down, between two operations
CrashStep == EndsWithin(FALSE, FALSE)

\* the same within a write of the state file
TornStep == EndsWithin(TRUE, FALSE)

\* KeyboardInterrupt, which the except Exception of check_traffic lets pass
\* to run()
InterruptStep == \E tear \in BOOLEAN : EndsWithin(tear, TRUE)

\* configurations with an interval or a total_limit that is not positive
BadConfigs ==
    {[total_limit |-> 5, interval |-> 0, critical_percentage |-> 60],
     [total_limit |-> 5, interval |-> 0 - 2, critical_percentage |-> 60],
     [total_limit |-> 0, interval |-> 2, critical_percentage |-> 60]}

\* main() with such a configuration
InitConfig == InitWith(BadConfigs, <<"email">>)

SpecConfig == InitConfig /\ [][Next]_vars

\* the monitor with crashes, and the history of the critical step
NextCrash ==
    \/ StartStep /\ UNCHANGED hist
    \/ Stop /\ UNCHANGED hist
    \/ NextHour /\ UNCHANGED hist
    \/ TickStep /\ hist' = AfterTickCritical(hist, threshold_config, tick')
    \/ CrashStep /\ hist' = AfterTickCritical(hist, threshold_config, tick')
    \/ \E newMonth \in BOOLEAN :
            NextDay(newMonth) /\ hist' = AtMidnight(hist, newMonth)

InitCrash == InitWith({SmallConfig}, <<"email">>)

SpecCrash == InitCrash /\ [][NextCrash]_vars

\* the monitor in normal operation, with the history of the shutdown action
NextAction ==
    \/ StartStep /\ UNCHANGED hist
    \/ Stop /\ UNCHANGED hist
    \/ NextHour /\ UNCHANGED hist
    \/ TickStep /\ hist' = AfterTickAction(hist, tick')
    \/ \E newMonth \in BOOLEAN :
            NextDay(newMonth) /\ hist' = AtMidnight(hist, newMonth)

SpecAction == InitCrash /\ [][NextAction]_vars

\* the monitor with every way a tick can end early: killed between two
\* operations or within a write of the state file, or interrupted
NextFault ==
    \/ StartStep /\ UNCHANGED hist
    \/ Stop /\ UNCHANGED hist
    \/ NextHour /\ UNCHANGED hist
    \/ TickStep /\ UNCHANGED hist
    \/ CrashStep /\ UNCHANGED hist
    \/ TornStep /\ UNCHANGED hist
    \/ InterruptStep /\ UNCHANGED hist
    \/ \E newMonth \in BOOLEAN : NextDay(newMonth) /\ UNCHANGED hist

SpecFault == InitCrash /\ [][NextFault]_vars

\* a tick whose writes of the state file in lost fail (a full disk, a
\* directory that is no longer writable), the notifier and the action
\* doing their work
StoreStep ==
    \E u \in UsageValues(threshold_config) :
    \E full \in {CheckTraffic(NewContext(state, state_file, NoCrash),
                              threshold_config, reporting, hour, TRUE, u, TRUE,
                              MultiNotifierNotify(notifiers, AllOk(notifiers)),
                              "ok")} :
    \E lost \in SUBSET (1..full.saves), partial \in BOOLEAN :
        /\ partial => lost # {}
        /\ Tick(u, TRUE, TRUE, AllOk(notifiers), "ok",
                [NoCrash EXCEPT !.lost = lost, !.partial = partial])

\* the monitor with writes of the state file that fail
NextStore ==
    \/ StartStep /\ UNCHANGED hist
    \/ Stop /\ UNCHANGED hist
    \/ NextHour /\ UNCHANGED hist
    \/ TickStep /\ UNCHANGED hist
    \/ StoreStep /\ UNCHANGED hist
    \/ \E newMonth \in BOOLEAN : NextDay(newMonth) /\ UNCHANGED hist

SpecStore == InitCrash /\ [][NextStore]_vars

\* a call of _get_status_summary or of _get_daily_report in the running
\* process, with the provider calls of the builder returning or raising
ReportCall(kind, current_usage, providerOk) ==
    /\ running
    /\ \E built \in {IF kind = "summary"
                      THEN GetStatusSummary(
                                NewContext(state, state_file, NoCrash),
                                threshold_config, current_usage, providerOk)
                      ELSE GetDailyReport(
                                NewContext(state, state_file, NoCrash),
                                threshold_config, providerOk, current_usage)} :
        /\ state' = built.ctx.state
        /\ state_file' = built.ctx.file
        /\ tick' = [Idle EXCEPT !.kind = kind, !.usage = current_usage,
                                !.hour = hour, !.before = state,
                                !.ops = built.ctx.ops, !.done = TRUE,
                                !.skipped = ~providerOk,
                                !.raised = built.raised,
                                !.text = built.text]
    /\ scenario' = Off
    /\ UNCHANGED <<threshold_config, reporting, notifiers, hour, running,
                   dispatch, provider, loaded, notifier_config, legacy>>

ReportStep ==
    \E kind \in {"summary", "report"}, u \in UsageValues(threshold_config),
       providerOk \in BOOLEAN : ReportCall(kind, u, providerOk)

\* the monitor in normal operation, and the texts built at any time
NextReport ==
    \/ StartStep /\ UNCHANGED hist
    \/ Stop /\ UNCHANGED hist
    \/ NextHour /\ UNCHANGED hist
    \/ TickStep /\ UNCHANGED hist
    \/ ReportStep /\ UNCHANGED hist
    \/ \E newMonth \in BOOLEAN : NextDay(newMonth) /\ UNCHANGED hist

SpecReport == InitCrash /\ [][NextReport]_vars

\* a configuration with three marks, 2, 4 and 6, and the critical threshold
\* between the first and the second
MarksConfig == [total_limit |-> 6, interval |-> 2, critical_percentage |-> 60]

InitMarks == InitWith({MarksConfig}, <<"email">>)

\* the monitor with writes of the state file that fail, over three marks
SpecMarks == InitMarks /\ [][NextStore]_vars

\* the monitor in normal operation over three marks, with the highest usage
\* of the calendar month
NextUsage ==
    \/ StartStep /\ UNCHANGED hist
    \/ Stop /\ UNCHANGED hist
    \/ NextHour /\ UNCHANGED hist
    \/ TickStep /\ hist' = AfterTickUsage(hist, tick')
    \/ \E newMonth \in BOOLEAN :
            NextDay(newMonth) /\ hist' = AtMidnight(hist, newMonth)

SpecUsage == InitMarks /\ [][NextUsage]_vars

\* the state file is overwritten with something json.load refuses or with
\* JSON that is no object, or made unreadable: _load_state ends in its
\* except Exception
DamageStep ==
    /\ state_file.exists
    /\ state_file.valid
    /\ state_file' = [state_file EXCEPT !.valid = FALSE]
    /\ tick' = Idle
    /\ UNCHANGED <<threshold_config, reporting, notifiers, hour, running,
                   state, scenario, dispatch, provider, loaded, notifier_config, legacy>>

\* the state file is removed
RemoveStep ==
    /\ state_file.exists
    /\ state_file' = NoFile
    /\ tick' = Idle
    /\ UNCHANGED <<threshold_config, reporting, notifiers, hour, running,
                   state, scenario, dispatch, provider, loaded, notifier_config, legacy>>

\* the monitor in normal operation with a state file that is damaged or
\* removed at any time, and the marks of the calendar month
NextDamage ==
    \/ StartStep /\ hist' = AtStart(hist)
    \/ Stop /\ UNCHANGED hist
    \/ NextHour /\ UNCHANGED hist
    \/ TickStep /\ hist' = AfterTickMarks(hist, tick')
    \/ DamageStep /\ UNCHANGED hist
    \/ RemoveStep /\ UNCHANGED hist
    \/ \E newMonth \in BOOLEAN :
            NextDay(newMonth) /\ hist' = AtMidnight(hist, newMonth)

SpecDamage == InitCrash /\ [][NextDamage]_vars

(***************************************************************************)
(* A tick step by step: the fetch and the daily report, then one step for  *)
(* each iteration of the while loop of check_traffic, then the iteration   *)
(* that finds no mark and leaves the loop for the critical step.  Until    *)
(* the tick has ended tick.done is false and nothing else happens.         *)
(***************************************************************************)
\* the operations a tick may have done when an iteration starts
MaxOps == 10

InLoop == running /\ tick.kind = "tick" /\ ~tick.done

\* check_traffic up to the while loop
TickBegin(current_usage, reportFetchOk, outs) ==
    /\ running
    /\ ~InLoop
    /\ \E d \in {MultiNotifierNotify(notifiers, outs)} :
       \E run \in {SendDailyReport(NewContext(state, state_file, NoCrash),
                                   threshold_config, reporting, hour,
                                   reportFetchOk, d)} :
           /\ state' = run.state
           /\ state_file' = run.file
           /\ tick' = [Idle EXCEPT !.kind = "tick", !.usage = current_usage,
                                   !.hour = hour, !.before = state,
                                   !.ops = run.ops]
    /\ scenario' = Off
    /\ UNCHANGED <<threshold_config, reporting, notifiers, hour, running,
                   dispatch, provider, loaded, notifier_config, legacy>>

\* an iteration of the while loop that finds a mark: notify, then
\* add_notified_threshold, whose write fails if lost is not empty
ThresholdIteration(outs, lost, partial) ==
    /\ InLoop
    /\ Len(tick.ops) < MaxOps
    /\ \E threshold \in {ShouldNotify(threshold_config, tick.usage,
                                       state.notified_thresholds)} :
       \E d \in {MultiNotifierNotify(notifiers, outs)} :
       \E run \in {Do(Notify(NewContext(state, state_file,
                                        [NoCrash EXCEPT !.lost = lost,
                                                        !.partial = partial]),
                             "ThresholdCrossed", threshold, d),
                      "add_notified_threshold", threshold, FALSE)} :
           /\ threshold # 0
           /\ state' = run.state
           /\ state_file' = run.file
           /\ tick' = [tick EXCEPT !.ops = @ \o run.ops]
    /\ UNCHANGED <<threshold_config, reporting, notifiers, hour, running,
                   scenario, dispatch, provider, loaded, notifier_config, legacy>>

\* the iteration that finds no mark: break, then the critical step, and
\* check_traffic returns
ThresholdExit(outs, act) ==
    /\ InLoop
    /\ ShouldNotify(threshold_config, tick.usage,
                    state.notified_thresholds) = 0
    /\ \E d \in {MultiNotifierNotify(notifiers, outs)} :
       \E run \in {CriticalStep(NewContext(state, state_file, NoCrash),
                                threshold_config, tick.usage, d, act)} :
           /\ state' = run.state
           /\ state_file' = run.file
           /\ tick' = [tick EXCEPT !.ops = @ \o run.ops, !.done = TRUE]
    /\ UNCHANGED <<threshold_config, reporting, notifiers, hour, running,
                   scenario, dispatch, provider, loaded, notifier_config, legacy>>

\* the process goes on with the tick it is in
LoopStep ==
    \/ \E outs \in OutcomesOf(notifiers), lost \in SUBSET {1},
          partial \in BOOLEAN :
            /\ partial => lost # {}
            /\ ThresholdIteration(outs, lost, partial)
    \/ \E outs \in OutcomesOf(notifiers) :
       \E act \in ActionOutcomesAt(tick.usage) : ThresholdExit(outs, act)

\* the ticks of one day, step by step, with stops and restarts between them
NextSteps ==
    \/ ~InLoop /\ StartStep /\ UNCHANGED hist
    \/ ~InLoop /\ Stop /\ UNCHANGED hist
    \/ \E u \in UsageValues(threshold_config),
          outs \in OutcomesOf(notifiers),
          rok \in (IF ReportDue THEN BOOLEAN ELSE {TRUE}) :
            TickBegin(u, rok, outs) /\ UNCHANGED hist
    \/ LoopStep /\ UNCHANGED hist

SpecSteps == InitMarks /\ [][NextSteps]_vars

\* the process is not stopped within a tick: it takes its next step
SpecStepsFair == SpecSteps /\ WF_vars(LoopStep /\ UNCHANGED hist)

(***************************************************************************)
(* main(): the notifiers are built from the configuration, then the        *)
(* monitor is built and run.                                               *)
(***************************************************************************)
\* the fields EmailNotifier.__init__ requires
EmailRequired == {"smtp_server", "smtp_port", "sender", "recipients"}

NotifiersConfigs ==
    {[email |-> [enabled |-> ee, missing |-> em],
      discord |-> [enabled |-> de, webhook_url |-> dw]] :
        ee \in BOOLEAN, de \in BOOLEAN, dw \in BOOLEAN,
        em \in {{}} \cup {{f} : f \in EmailRequired} \cup {EmailRequired}}

\* the notifiers main() adds, in its order: email, then Discord
EnabledNotifiers(nc) ==
    (IF nc.email.enabled THEN <<"email">> ELSE <<>>)
        \o (IF nc.discord.enabled THEN <<"discord">> ELSE <<>>)

\* what main() does with the configuration: 1 is return 1, Off is that it
\* goes on to TrafficMonitor(...) and monitor.run()
MainExit(nc) ==
    IF nc.email.enabled /\ nc.email.missing # {}
    THEN \* EmailNotifier.__init__ raises ValueError: except Exception
         1
    ELSE IF nc.discord.enabled /\ ~nc.discord.webhook_url
    THEN \* DiscordNotifier.__init__ raises ValueError
         1
    ELSE IF EnabledNotifiers(nc) = <<>>
    THEN \* no notification method enabled
         1
    ELSE Off

\* main() returns 1 before it builds the monitor
MainFails ==
    /\ ~running
    /\ MainExit(notifier_config) # Off
    /\ tick' = [Idle EXCEPT !.kind = "exit", !.exit = MainExit(notifier_config)]
    /\ UNCHANGED <<threshold_config, reporting, notifiers, hour, running,
                   state, state_file, scenario, hist, dispatch, provider,
                   loaded, notifier_config, legacy>>

\* main() builds the monitor and runs it
MainRuns ==
    /\ MainExit(notifier_config) = Off
    /\ StartStep

\* every configuration of the notifiers, with thresholds that are valid
\* and thresholds that are not; the notifiers are those main() adds
InitMain ==
    /\ threshold_config \in {SmallConfig} \cup BadConfigs
    /\ reporting \in ReportConfigs
    /\ notifier_config \in NotifiersConfigs
    /\ notifiers = EnabledNotifiers(notifier_config)
    /\ hour = DailyReportHour
    /\ running = FALSE
    /\ state = NoState
    /\ state_file = NoFile
    /\ tick = Idle
    /\ scenario = Off
    /\ hist = NewHist
    /\ dispatch = NoDispatch
    /\ provider = NoProvider
    /\ loaded = NoLoad
    /\ legacy = NoLegacy

NextMain ==
    \/ MainFails
    \/ MainRuns /\ UNCHANGED hist
    \/ TickStep /\ UNCHANGED hist

SpecMain == InitMain /\ [][NextMain]_vars

(***************************************************************************)
(* MultiNotifier on its own: notifiers are added and notify is called with *)
(* every behaviour of the notifiers.                                       *)
(***************************************************************************)
InitNotify == InitWith({DefaultConfig}, <<>>)

\* add_notifier
AddNotifier(n) ==
    /\ Len(notifiers) < MaxNotifiers
    /\ notifiers' = Append(notifiers, n)
    /\ UNCHANGED <<threshold_config, reporting, hour, running, state,
                   state_file, tick, scenario, hist, dispatch, provider, loaded, notifier_config, legacy>>

\* notify(subject, message, level)
NotifyCall(outs) ==
    /\ \E r \in {MultiNotifierNotify(notifiers, outs)} :
        dispatch' = [called |-> TRUE, notifiers |-> notifiers, outs |-> outs,
                     invoked |-> r.invoked, results |-> r.results,
                     ret |-> r.ret, propagated |-> r.propagated]
    /\ UNCHANGED <<threshold_config, reporting, notifiers, hour, running,
                   state, state_file, tick, scenario, hist, provider, loaded, notifier_config, legacy>>

NextNotify ==
    \/ \E n \in NotifierNames : AddNotifier(n)
    \/ \E outs \in OutcomesOf(notifiers) : NotifyCall(outs)

SpecNotify == InitNotify /\ [][NextNotify]_vars

(***************************************************************************)
(* VnStatDataProvider on its own.  A size string is a sequence of          *)
(* characters; a size in GB is a fraction num / den, where Python has a    *)
(* float.                                                                  *)
(***************************************************************************)
DigitChars == <<"0", "1", "2", "3", "4", "5", "6", "7", "8", "9">>

Digits == {DigitChars[i] : i \in 1..10}

DigitValue(c) == (CHOOSE i \in 1..10 : DigitChars[i] = c) - 1

Letters == {"G", "M", "K", "T", "B", "i", "g", "m", "k", "t", "b", "I"}

\* the classes [\d.], \s and \w of the regular expressions
DigitsDot == Digits \cup {"."}
Spaces == {" "}
WordChars == Digits \cup Letters \cup {"_"}

\* str.lower() of a character
Lower(c) ==
    CASE c = "G" -> "g" [] c = "M" -> "m" [] c = "K" -> "k"
      [] c = "T" -> "t" [] c = "B" -> "b" [] c = "I" -> "i"
      [] OTHER -> c

LowerStr(s) == [i \in 1..Len(s) |-> Lower(s[i])]

RECURSIVE RunLen(_, _, _)
\* the length of the longest run of characters of the class from index i
RunLen(s, i, class) ==
    IF i > Len(s) \/ s[i] \notin class THEN 0
    ELSE 1 + RunLen(s, i + 1, class)

\* pat in s
Contains(s, pat) ==
    \E i \in 1..(Len(s) - Len(pat) + 1) : SubSeq(s, i, i + Len(pat) - 1) = pat

RECURSIVE Pow10(_)
Pow10(n) == IF n = 0 THEN 1 ELSE 10 * Pow10(n - 1)

RECURSIVE IntOf(_, _)
\* the number the digits of s write, after acc
IntOf(s, acc) ==
    IF s = <<>> THEN acc
    ELSE IntOf(Tail(s), IF Head(s) = "." THEN acc
                        ELSE 10 * acc + DigitValue(Head(s)))

\* float(value) of a string of digits and dots: ValueError unless it has a
\* digit and at most one dot
Float(s) ==
    LET dots == Cardinality({i \in 1..Len(s) : s[i] = "."})
        dot == IF dots = 1 THEN CHOOSE i \in 1..Len(s) : s[i] = "." ELSE Len(s)
    IN  IF dots > 1 \/ Len(s) = dots
        THEN [ok |-> FALSE, num |-> 0, den |-> 1]
        ELSE [ok |-> TRUE, num |-> IntOf(s, 0), den |-> Pow10(Len(s) - dot)]

Zero == [num |-> 0, den |-> 1]

\* _parse_size_to_gb without unit.lower()
ParseSizeToGbAsWritten(size_str) ==
    LET n1 == RunLen(size_str, 1, DigitsDot)
        n2 == RunLen(size_str, n1 + 1, Spaces)
        n3 == RunLen(size_str, n1 + n2 + 1, WordChars)
        value == Float(SubSeq(size_str, 1, n1))
        unit == SubSeq(size_str, n1 + n2 + 1, n1 + n2 + n3)
    IN  IF n1 = 0 \/ n2 = 0 \/ n3 = 0 THEN Zero
        ELSE IF ~value.ok THEN Zero
        ELSE IF Contains(unit, <<"g", "i", "b">>)
        THEN [num |-> value.num, den |-> value.den]
        ELSE IF Contains(unit, <<"m", "i", "b">>)
        THEN [num |-> value.num, den |-> value.den * 1024]
        ELSE IF Contains(unit, <<"k", "i", "b">>)
        THEN [num |-> value.num, den |-> value.den * 1024 * 1024]
        ELSE IF Contains(unit, <<"t", "i", "b">>)
        THEN [num |-> value.num * 1024, den |-> value.den]
        ELSE [num |-> value.num, den |-> value.den]

\* _parse_size_to_gb
ParseSizeToGb(size_str) ==
    LET n1 == RunLen(size_str, 1, DigitsDot)
        n2 == RunLen(size_str, n1 + 1, Spaces)
        n3 == RunLen(size_str, n1 + n2 + 1, WordChars)
        value == Float(SubSeq(size_str, 1, n1))
        unit == LowerStr(SubSeq(size_str, n1 + n2 + 1, n1 + n2 + n3))
    IN  IF n1 = 0 \/ n2 = 0 \/ n3 = 0 THEN Zero
        ELSE IF ~value.ok THEN Zero
        ELSE IF Contains(unit, <<"g", "i", "b">>)
        THEN [num |-> value.num, den |-> value.den]
        ELSE IF Contains(unit, <<"m", "i", "b">>)
        THEN [num |-> value.num, den |-> value.den * 1024]
        ELSE IF Contains(unit, <<"k", "i", "b">>)
        THEN [num |-> value.num, den |-> value.den * 1024 * 1024]
        ELSE IF Contains(unit, <<"t", "i", "b">>)
        THEN [num |-> value.num * 1024, den |-> value.den]
        ELSE [num |-> value.num, den |-> value.den]

\* The sizes and units written into size strings: the text of a value with
\* the fraction it writes, the text of a unit with the unit it names.
SizeValues ==
    { [text |-> <<"1", "0", ".", "5">>, ok |-> TRUE, num |-> 105, den |-> 10],
      [text |-> <<"8", "0", "0">>, ok |-> TRUE, num |-> 800, den |-> 1],
      [text |-> <<"1", "0", "2", "4">>, ok |-> TRUE, num |-> 1024, den |-> 1],
      [text |-> <<"2", ".", "5">>, ok |-> TRUE, num |-> 25, den |-> 10],
      [text |-> <<"0">>, ok |-> TRUE, num |-> 0, den |-> 1],
      [text |-> <<"1", ".", "2", ".", "3">>, ok |-> FALSE, num |-> 0, den |-> 1] }

SizeUnits ==
    { [text |-> <<"G", "i", "B">>, kind |-> "GiB"],
      [text |-> <<"M", "i", "B">>, kind |-> "MiB"],
      [text |-> <<"K", "i", "B">>, kind |-> "KiB"],
      [text |-> <<"T", "i", "B">>, kind |-> "TiB"],
      [text |-> <<"g", "i", "b">>, kind |-> "GiB"],
      [text |-> <<"M", "I", "B">>, kind |-> "MiB"],
      [text |-> <<"k", "I", "b">>, kind |-> "KiB"],
      [text |-> <<"B">>, kind |-> "other"] }

Separators == {<<>>, <<" ">>, <<" ", " ">>}

\* a call of _parse_size_to_gb with the string "<value><sep><unit>"
ParseSizeCall(v, sep, u) ==
    /\ provider' = [called |-> "parse", value |-> v, sep |-> sep, unit |-> u,
                    result |-> ParseSizeToGb(v.text \o sep \o u.text)]
    /\ UNCHANGED <<threshold_config, reporting, notifiers, hour, running,
                   state, state_file, tick, scenario, hist, dispatch, loaded, notifier_config, legacy>>

(***************************************************************************)
(* The output of `vnstat -m` is a sequence of lines.  A line is a row of   *)
(* the table or some other text; a row names a month and carries the rx,   *)
(* tx and total columns as a value text and a unit.                        *)
(***************************************************************************)
RowValue(text, num, den) == [text |-> text, num |-> num, den |-> den]

MonthRow(month, rx, tx, total, unit) ==
    [month |-> month, estimated |-> FALSE, rx |-> rx, tx |-> tx,
     total |-> total, unit |-> unit]

\* (rx, tx, total) of the rows; all three differ
RowColumns ==
    { << RowValue(<<"1", ".", "5", "0">>, 150, 100),
         RowValue(<<"2", ".", "2", "5">>, 225, 100),
         RowValue(<<"3", ".", "7", "5">>, 375, 100) >>,
      << RowValue(<<"0", ".", "2", "0">>, 20, 100),
         RowValue(<<"0", ".", "4", "0">>, 40, 100),
         RowValue(<<"0", ".", "6", "0">>, 60, 100) >> }

RowUnits == {u \in SizeUnits : u.text \in {<<"G", "i", "B">>, <<"M", "i", "B">>}}

\* the rows of a month whose columns have decimals
MonthRows ==
    { MonthRow(m, c[1], c[2], c[3], u) :
        m \in {ThisMonth, EarlierMonth}, c \in RowColumns, u \in RowUnits }

\* a row of the current month with nothing counted yet: "0 B" in each column
EmptyRow ==
    MonthRow(ThisMonth, RowValue(<<"0">>, 0, 1), RowValue(<<"0">>, 0, 1),
             RowValue(<<"0">>, 0, 1),
             CHOOSE u \in SizeUnits : u.text = <<"B">>)

\* the "estimated" line under the table: sizes, and no month
EstimatedLine ==
    [MonthRow(None, RowValue(<<"4", ".", "5", "0">>, 450, 100),
              RowValue(<<"5", ".", "2", "5">>, 525, 100),
              RowValue(<<"9", ".", "7", "5">>, 975, 100),
              CHOOSE u \in SizeUnits : u.text = <<"G", "i", "B">>)
     EXCEPT !.estimated = TRUE]

\* a header or a separator line
HeaderLine == [EmptyRow EXCEPT !.month = None]

Lines == MonthRows \cup {EmptyRow, EstimatedLine, HeaderLine}

\* \d+\.\d+ covers the text of a column
IsDecimal(text) ==
    LET n1 == RunLen(text, 1, Digits)
        n2 == RunLen(text, n1 + 2, Digits)
    IN  /\ n1 > 0
        /\ n1 < Len(text)
        /\ text[n1 + 1] = "."
        /\ n2 > 0
        /\ n1 + 1 + n2 = Len(text)

\* month_pattern.search(line)
MonthPatternMatches(line) ==
    /\ line.month # None
    /\ IsDecimal(line.rx.text)
    /\ IsDecimal(line.tx.text)
    /\ IsDecimal(line.total.text)

RECURSIVE StripZeros(_)
\* str(float(text)) of a decimal: the zeros that end the fraction dropped,
\* one digit of the fraction kept
StripZeros(text) ==
    IF Len(text) >= 3 /\ text[Len(text)] = "0" /\ text[Len(text) - 1] # "."
    THEN StripZeros(SubSeq(text, 1, Len(text) - 1))
    ELSE text

\* total_str, total_unit = match.group(6), match.group(7), then
\* _parse_size_to_gb(f"{float(total_str)} {total_unit}")
TotalOf(line) ==
    ParseSizeToGb(StripZeros(line.total.text) \o <<" ">> \o line.unit.text)

\* the first of a set of line numbers, 0 if there is none
FirstLine(found) ==
    IF found = {} THEN 0
    ELSE CHOOSE i \in found : \A j \in found : i <= j

\* get_current_month_usage; commandOk is whether _run_vnstat_command returned
GetCurrentMonthUsage(commandOk, lines) ==
    LET i == FirstLine({k \in 1..Len(lines) :
                          /\ lines[k].month = ThisMonth
                          /\ MonthPatternMatches(lines[k])})
        j == FirstLine({k \in 1..Len(lines) :
                          /\ ~lines[k].estimated
                          /\ MonthPatternMatches(lines[k])})
    IN  IF ~commandOk THEN [raised |-> TRUE, line |-> 0, gb |-> Zero]
        ELSE IF i # 0 THEN [raised |-> FALSE, line |-> i, gb |-> TotalOf(lines[i])]
        ELSE IF j # 0 THEN [raised |-> FALSE, line |-> j, gb |-> TotalOf(lines[j])]
        ELSE [raised |-> FALSE, line |-> 0, gb |-> Zero]

\* a call of get_current_month_usage over an output of vnstat -m
MonthUsageCall(commandOk, lines) ==
    /\ provider' = [called |-> "usage", commandOk |-> commandOk,
                    lines |-> lines,
                    result |-> GetCurrentMonthUsage(commandOk, lines)]
    /\ UNCHANGED <<threshold_config, reporting, notifiers, hour, running,
                   state, state_file, tick, scenario, hist, dispatch, loaded, notifier_config, legacy>>

MaxLines == 2

Outputs == UNION {[1..n -> Lines] : n \in 0..MaxLines}

InitProvider == InitWith({DefaultConfig}, <<>>)

NextProvider ==
    \/ \E v \in SizeValues, sep \in Separators, u \in SizeUnits :
          ParseSizeCall(v, sep, u)
    \/ \E lines \in Outputs : MonthUsageCall(TRUE, lines)
    \/ MonthUsageCall(FALSE, <<>>)

SpecProvider == InitProvider /\ [][NextProvider]_vars

(***************************************************************************)
(* StateManager._load_state on its own, field by field.  The state is the  *)
(* dict that json.load returns: a function from the keys the file has to   *)
(* their values.  last_updated is a time, kept as "now" or "earlier".      *)
(***************************************************************************)
StateKeys == {"version", "last_updated", "current_month",
              "notified_thresholds", "critical_notification_sent",
              "last_daily_report_date"}

\* _create_default_state, as a dict
CreateDefaultStateDict(month) ==
    [k \in StateKeys |->
        CASE k = "version" -> "1.0"
          [] k = "last_updated" -> "now"
          [] k = "current_month" -> month
          [] k = "notified_thresholds" -> <<>>
          [] k = "critical_notification_sent" -> FALSE
          [] k = "last_daily_report_date" -> None]

\* state.get(key)
DictGet(st, key) == IF key \in DOMAIN st THEN st[key] ELSE None

\* the dict st after st[key] = value for the keys of new
DictUpdate(st, new) ==
    [k \in DOMAIN st \cup DOMAIN new |-> IF k \in DOMAIN new THEN new[k] ELSE st[k]]

\* the reset of _validate_state for a state of another month
MonthReset(st, month) ==
    IF DictGet(st, "current_month") # month
    THEN DictUpdate(st, [k \in {"current_month", "notified_thresholds",
                                "critical_notification_sent",
                                "last_daily_report_date"} |->
                            CreateDefaultStateDict(month)[k]])
    ELSE st

\* _validate_state without the loop that adds the missing fields
ValidateStateDictAsRead(st, month) == MonthReset(st, month)

\* _validate_state, as a dict
ValidateStateDict(st, month) ==
    LET reset == MonthReset(st, month)
        default_state == CreateDefaultStateDict(month)
    IN  [k \in DOMAIN reset \cup StateKeys |->
            IF k \in DOMAIN reset THEN reset[k] ELSE default_state[k]]

\* _load_state of a file: none, one that json.load refuses, one that holds
\* JSON that is no object (state.get raises AttributeError), or an object
LoadStateDict(file, month) ==
    IF file.kind = "object" THEN ValidateStateDict(file.content, month)
    ELSE CreateDefaultStateDict(month)

\* what a file has in a field that it has: never the default
StoredValue(k) ==
    CASE k = "version" -> "0.9"
      [] k = "last_updated" -> "earlier"
      [] k = "notified_thresholds" -> <<100, 200>>
      [] k = "critical_notification_sent" -> TRUE
      [] k = "last_daily_report_date" -> Today
      [] k = "comment" -> "a field the program does not know"

OptionalKeys == (StateKeys \ {"current_month"}) \cup {"comment"}

\* the state files: every subset of the fields, with the month of the file
\* this month, an earlier one or missing
StateObjects ==
    { [k \in present \cup months |->
            IF k = "current_month" THEN month ELSE StoredValue(k)] :
        present \in SUBSET OptionalKeys,
        months \in SUBSET {"current_month"},
        month \in {ThisMonth, EarlierMonth} }

StateFiles ==
    {[kind |-> "object", content |-> c] : c \in StateObjects}
        \cup {[kind |-> k, content |-> <<>>] : k \in {"none", "garbage", "list"}}

\* StateManager(state_file) over a file
LoadCall(file) ==
    /\ loaded' = [called |-> TRUE, file |-> file,
                  state |-> LoadStateDict(file, ThisMonth)]
    /\ UNCHANGED <<threshold_config, reporting, notifiers, hour, running,
                   state, state_file, tick, scenario, hist, dispatch, provider, notifier_config, legacy>>

InitLoad == InitWith({DefaultConfig}, <<>>)

NextLoad == \E file \in StateFiles : LoadCall(file)

SpecLoad == InitLoad /\ [][NextLoad]_vars

(***************************************************************************)
(* The legacy monitor (src/monitors/traffic_monitor.py, run by            *)
(* src/main.py).  Its notifier is one EmailNotifier, called without a      *)
(* MultiNotifier around it; as the notifiers of the repository do, it      *)
(* returns true or false and raises nothing.                               *)
(***************************************************************************)
LegacyOutcomes == {"ok", "fail"}

\* the legacy send_daily_report: the date of the last report is a field of
\* the monitor
LegacySendDailyReport(run, cfg, rep, now_hour, reportFetchOk, out) ==
    IF ~rep.enable_daily_report THEN run
    ELSE IF run.state.last_daily_report_date = Today THEN run
    ELSE IF now_hour # DailyReportHour THEN run
    ELSE IF ~reportFetchOk \/ cfg.total_limit = 0
    THEN \* except Exception: logged
         run
    ELSE [state |-> [run.state EXCEPT !.last_daily_report_date = Today],
          ops |-> Append(run.ops, Operation("DailyReport", 0, out = "ok"))]

\* the threshold step with the while loop of the new monitor: every mark
\* that is due, in one tick
LegacyThresholdLoop(run, cfg, current_usage, out) ==
    LET marks == [i \in 1..(cfg.total_limit \div cfg.interval) |->
                    i * cfg.interval]
        due == SelectSeq(marks, LAMBDA m :
                    /\ m <= current_usage
                    /\ \A k \in 1..Len(run.state.notified_thresholds) :
                            run.state.notified_thresholds[k] # m)
    IN  [state |-> [run.state EXCEPT !.notified_thresholds = @ \o due],
         ops |-> run.ops \o [k \in 1..Len(due) |->
                    Operation("ThresholdCrossed", due[k], out = "ok")]]

\* the threshold step of the legacy check_traffic: an if, not a loop
LegacyThresholdStep(run, cfg, current_usage, out) ==
    LET threshold == ShouldNotify(cfg, current_usage,
                                  run.state.notified_thresholds)
    IN  IF threshold = 0 THEN run
        ELSE [state |-> [run.state EXCEPT !.notified_thresholds =
                                Append(@, threshold)],
              ops |-> Append(run.ops,
                             Operation("ThresholdCrossed", threshold,
                                       out = "ok"))]

\* the critical step of the legacy check_traffic: notify, set the flag,
\* execute the action
LegacyCriticalStep(run, cfg, current_usage, out, act) ==
    IF IsCritical(cfg, current_usage)
       /\ ~run.state.critical_notification_sent
    THEN [state |-> [run.state EXCEPT !.critical_notification_sent = TRUE],
          ops |-> run.ops \o <<Operation("CriticalReached", current_usage,
                                         out = "ok"),
                               Operation("execute", 0, act = "ok")>>]
    ELSE run

\* the legacy check_traffic: the state after it and what it dispatched
LegacyCheckTraffic(lg, cfg, rep, now_hour, providerOk, current_usage, reportFetchOk, out, act) ==
    IF ~providerOk
    THEN \* get_current_month_usage raised: except Exception, logged
         [state |-> lg, ops |-> <<>>]
    ELSE LegacyCriticalStep(
            LegacyThresholdStep(
                LegacySendDailyReport([state |-> lg, ops |-> <<>>], cfg, rep,
                                      now_hour, reportFetchOk, out),
                cfg, current_usage, out),
            cfg, current_usage, out, act)

\* src/main.py: the monitor is built with a new state, and run() sends the
\* startup notification
LegacyStart(current_usage, providerOk, out) ==
    /\ ~legacy.running
    /\ legacy' = [NoLegacy EXCEPT
                    !.running = TRUE, !.kind = "start",
                    !.usage = current_usage, !.skipped = ~providerOk,
                    !.ops = IF reporting.enable_startup_notification
                               /\ providerOk
                            THEN <<Operation("StartupStatus", current_usage,
                                             out = "ok")>>
                            ELSE <<>>]
    /\ UNCHANGED <<threshold_config, reporting, notifiers, hour, running,
                   state, state_file, tick, scenario, hist, dispatch,
                   provider, loaded, notifier_config>>

\* KeyboardInterrupt during the sleep of run(), or the host going down
LegacyStop ==
    /\ legacy.running
    /\ legacy' = NoLegacy
    /\ UNCHANGED <<threshold_config, reporting, notifiers, hour, running,
                   state, state_file, tick, scenario, hist, dispatch,
                   provider, loaded, notifier_config>>

\* one iteration of the loop of the legacy run()
LegacyTick(current_usage, providerOk, reportFetchOk, out, act) ==
    /\ legacy.running
    /\ \E run \in {LegacyCheckTraffic(legacy.state, threshold_config,
                                      reporting, hour, providerOk,
                                      current_usage, reportFetchOk, out,
                                      act)} :
        legacy' = [legacy EXCEPT
                    !.state = run.state, !.kind = "tick",
                    !.usage = current_usage, !.before = legacy.state,
                    !.ops = run.ops, !.skipped = ~providerOk,
                    !.criticals = Min(MaxCount,
                                      @ + Count(run.ops, "CriticalReached")),
                    !.executes = Min(MaxCount, @ + Count(run.ops, "execute"))]
    /\ UNCHANGED <<threshold_config, reporting, notifiers, hour, running,
                   state, state_file, tick, scenario, hist, dispatch,
                   provider, loaded, notifier_config>>

\* the clock reaches the next hour, which is not the report hour
LegacyNextHour ==
    /\ hour = DailyReportHour
    /\ hour' = DailyReportHour + 1
    /\ legacy' = [legacy EXCEPT !.kind = "none", !.ops = <<>>]
    /\ UNCHANGED <<threshold_config, reporting, notifiers, running, state,
                   state_file, tick, scenario, hist, dispatch, provider,
                   loaded, notifier_config>>

\* midnight, of this month or the next, and the hours to the report hour
LegacyNextDay ==
    /\ hour' = DailyReportHour
    /\ legacy' = [legacy EXCEPT
                    !.state.last_daily_report_date = NextDayDate(@),
                    !.kind = "none", !.ops = <<>>]
    /\ UNCHANGED <<threshold_config, reporting, notifiers, running, state,
                   state_file, tick, scenario, hist, dispatch, provider,
                   loaded, notifier_config>>

InitLegacy == InitWith({MarksConfig}, <<"email">>)

NextLegacy ==
    \/ \E u \in UsageValues(threshold_config), out \in LegacyOutcomes :
            LegacyStart(u, TRUE, out)
    \/ LegacyStart(0, FALSE, "ok")
    \/ LegacyStop
    \/ \E u \in UsageValues(threshold_config), out \in LegacyOutcomes,
          rok \in BOOLEAN, act \in ActionOutcomes :
            LegacyTick(u, TRUE, rok, out, act)
    \/ LegacyTick(0, FALSE, TRUE, "ok", "ok")
    \/ LegacyNextHour
    \/ LegacyNextDay

SpecLegacy == InitLegacy /\ [][NextLegacy]_vars

(***************************************************************************)
(* The claims                                                              *)
(***************************************************************************)
\* the threshold marks of a configuration
Marks(cfg) == {i * cfg.interval : i \in 1..(cfg.total_limit \div cfg.interval)}

Elements(list) == {list[i] : i \in 1..Len(list)}

Max(S) == IF S = {} THEN 0 ELSE CHOOSE x \in S : \A y \in S : y <= x

Ascending(list) == \A i, j \in 1..Len(list) : i < j => list[i].arg < list[j].arg

\* a tick that fetched the usage and ran to its end
FullTick == tick.kind = "tick" /\ tick.done /\ ~tick.skipped

\* C1: a tick with usage u emits exactly one ThresholdCrossed for every mark
\* m <= u that is not in notified_thresholds and for no other value, in
\* ascending order of m; the marks emitted are the marks in
\* (prev_max_notified, u].
C1_ThresholdEvents ==
    FullTick =>
        LET emitted == Events(tick.ops, "ThresholdCrossed")
            notified == Elements(tick.before.notified_thresholds)
            due == {m \in Marks(threshold_config) :
                        m <= tick.usage /\ m \notin notified}
        IN  /\ Args(tick.ops, "ThresholdCrossed") = due
            /\ Len(emitted) = Cardinality(due)
            /\ Ascending(emitted)
            /\ due = {m \in Marks(threshold_config) :
                        Max(notified) < m /\ m <= tick.usage}

\* a tick that jumped over several marks, after marks notified before
C1_Witness ==
    /\ FullTick
    /\ Count(tick.ops, "ThresholdCrossed") >= 2
    /\ tick.before.notified_thresholds # <<>>

\* C6: a tick with the usage of the tick before it, on the state that tick
\* left, emits no ThresholdCrossed and no CriticalReached and leaves
\* notified_thresholds and critical_notification_sent as they were.
C6_Idempotent ==
    (tick.kind = "tick" /\ tick.same /\ tick.done) =>
        /\ Count(tick.ops, "ThresholdCrossed") = 0
        /\ Count(tick.ops, "CriticalReached") = 0
        /\ Count(tick.ops, "execute") = 0
        /\ state.notified_thresholds = tick.before.notified_thresholds
        /\ state.critical_notification_sent
                = tick.before.critical_notification_sent

\* the second of two ticks with a usage over marks and the critical threshold
C6_Witness ==
    /\ tick.kind = "tick" /\ tick.same /\ tick.done
    /\ IsCritical(threshold_config, tick.usage)
    /\ Len(state.notified_thresholds) >= 2
    /\ state.critical_notification_sent

\* the threshold and critical events of a run and the shutdown action, in
\* their order
EvaluatorEvents(ops) ==
    LET evs == SelectSeq(ops, LAMBDA o :
                    o.op \in {"ThresholdCrossed", "CriticalReached", "execute"})
    IN  [i \in 1..Len(evs) |-> <<evs[i].op, evs[i].arg>>]

\* C7: total_limit 2000, interval 100, critical_percentage 90, an empty
\* state and the usage 50, 150, 1850: the first tick emits nothing, the second
\* ThresholdCrossed(100), the third ThresholdCrossed(200) to
\* ThresholdCrossed(1800) in ascending order, then one CriticalReached, and
\* the shutdown action is executed once.
C7_Scenario ==
    (tick.kind = "tick" /\ scenario \in 1..3) =>
        EvaluatorEvents(tick.ops) =
            CASE scenario = 1 -> <<>>
              [] scenario = 2 -> <<<<"ThresholdCrossed", 100>>>>
              [] scenario = 3 ->
                    [i \in 1..17 |-> <<"ThresholdCrossed", (i + 1) * 100>>]
                    \o <<<<"CriticalReached", 1850>>, <<"execute", 0>>>>

\* the third tick of the scenario
C7_Witness == tick.kind = "tick" /\ scenario = 3

\* C9: MultiNotifier.notify invokes every notifier, also after one returned
\* false or raised; no exception reaches the caller; the result is true
\* exactly when a notifier returned true.
C9_FanOut ==
    dispatch.called =>
        /\ dispatch.invoked = dispatch.notifiers
        /\ ~dispatch.propagated
        /\ dispatch.ret = \E i \in 1..Len(dispatch.outs) : dispatch.outs[i] = "ok"

\* three notifiers: the first raises, the second fails, the third succeeds
C9_Witness ==
    /\ dispatch.called
    /\ dispatch.outs = <<"raise", "fail", "ok">>
    /\ Len(dispatch.invoked) = 3
    /\ dispatch.ret

\* C2: in every calendar month in which a tick sees the usage at or above
\* critical_threshold exactly one CriticalReached is emitted: never a second
\* one in the month, and one again in each following month.
C2_OncePerMonth ==
    /\ hist.critEvents <= 1
    /\ hist.critSeen => hist.critEvents = 1

\* C3: a tick that runs while the month of the state is not the calendar
\* month clears notified_thresholds, critical_notification_sent and
\* last_daily_report_date before it evaluates the thresholds, in a process
\* that kept running as in one that was restarted: the tick has evaluated
\* the usage against an empty state.
C3_MonthRollover ==
    (FullTick /\ tick.before.current_month # ThisMonth) =>
        LET reached == {m \in Marks(threshold_config) : m <= tick.usage}
        IN  /\ Args(tick.ops, "ThresholdCrossed") = reached
            /\ Elements(state.notified_thresholds) = reached
            /\ IsCritical(threshold_config, tick.usage)
                    => Count(tick.ops, "CriticalReached") = 1
            /\ state.critical_notification_sent
                    = IsCritical(threshold_config, tick.usage)
            /\ state.last_daily_report_date # EarlierDay

\* C4: after a stop and a start in the same calendar month no mark recorded
\* before the start is notified again, and no second CriticalReached is
\* sent.
C4_NoDuplicateAfterRestart ==
    tick.kind = "tick" =>
        /\ Args(tick.ops, "ThresholdCrossed") \cap hist.preMarks = {}
        /\ hist.preCrit => Count(tick.ops, "CriticalReached") = 0

\* C5: in a month in which a tick sees the usage at or above
\* critical_threshold execute() is called exactly once, whatever crashes and
\* restarts there are; in a month in which no tick does, it is not called.
C5_ExecuteOnce ==
    /\ hist.executes <= 1
    /\ hist.critSeen => hist.executes = 1
    /\ hist.executes > 0 => hist.critSeen

\* C8: at most one DailyReport is dispatched in a calendar day, and none on
\* a tick outside the report hour.
C8_OneReportPerDay ==
    /\ hist.reports <= 1
    /\ Count(tick.ops, "DailyReport") > 0 => tick.hour = DailyReportHour

\* C10: the state update of every ThresholdCrossed, CriticalReached and
\* DailyReport is made whether the dispatch succeeded or failed, and an
\* event whose dispatch failed is not dispatched again on a later tick of
\* the same month (ThresholdCrossed, CriticalReached) or day (DailyReport).
C10_AtMostOnce ==
    [][(tick' # tick /\ tick'.kind = "tick" /\ tick'.done) =>
        /\ Args(tick'.ops, "ThresholdCrossed")
                \subseteq Elements(state'.notified_thresholds)
        /\ Count(tick'.ops, "CriticalReached") > 0
                => state'.critical_notification_sent
        /\ Count(tick'.ops, "DailyReport") > 0
                => state'.last_daily_report_date = Today
        /\ Args(tick'.ops, "ThresholdCrossed") \cap hist.failed = {}
        /\ hist.critFailed => Count(tick'.ops, "CriticalReached") = 0
        /\ hist.reportFailed => Count(tick'.ops, "DailyReport") = 0]_vars

\* C11: a tick whose fetch of the usage fails dispatches nothing and calls
\* no action, leaves the state in memory and the state file as they were,
\* and leaves the process running for the next tick.
C11_ProviderFailureSkips ==
    [][(tick'.kind = "tick" /\ tick'.skipped) =>
        /\ tick'.ops = <<>>
        /\ state' = state
        /\ state_file' = state_file
        /\ running /\ running']_vars

\* a failed fetch in the report hour with a report due, marks to notify
\* recorded before it
C11_Witness ==
    /\ tick.kind = "tick" /\ tick.skipped
    /\ ReportDue
    /\ state.notified_thresholds # <<>>
    /\ state_file.exists

\* C12: a configuration whose interval or total_limit is not positive is
\* rejected when TrafficMonitor is constructed: the process never runs, and
\* no tick is evaluated, with such a configuration.
C12_RejectedAtConstruction ==
    (running \/ tick.kind \in {"start", "tick"}) =>
        /\ threshold_config.interval > 0
        /\ threshold_config.total_limit > 0

\* C13: the state file is written atomically: whenever the process ends,
\* the file holds a whole state, the one before the update or the one after
\* it, and a start never finds a file it cannot read.
C13_AtomicSave ==
    state_file.exists =>
        /\ state_file.valid
        /\ (running /\ tick.kind = "start") =>
                tick.before = ValidateState(state_file.content, ThisMonth)

\* C14: within a calendar month no tick and no load of the state removes a
\* recorded mark or resets critical_notification_sent: every mark recorded
\* in this month is in notified_thresholds of the running process, and the
\* flag is set if it was set in this month.
C14_OnlyGrows ==
    running =>
        /\ hist.marks \subseteq Elements(state.notified_thresholds)
        /\ hist.crit => state.critical_notification_sent

\* C15: a state saved by a tick and loaded again in the same calendar month
\* is the state that was saved: current_month, notified_thresholds,
\* critical_notification_sent and last_daily_report_date are equal.
C15_RoundTrip ==
    (FullTick /\ \E i \in 1..Len(tick.ops) : tick.ops[i].op \in Saves) =>
        /\ state_file = SaveState(state)
        /\ LoadState(state_file, ThisMonth) = state

\* every dispatch of a run is followed by its state update, and the critical
\* notification by the flag update and the action
Complete(ops) ==
    /\ Count(ops, "ThresholdCrossed") = Count(ops, "add_notified_threshold")
    /\ Count(ops, "DailyReport") = Count(ops, "set_last_daily_report_date")
    /\ Count(ops, "CriticalReached")
            = Count(ops, "set_critical_notification_sent")
    /\ Count(ops, "CriticalReached") = Count(ops, "execute")

\* C16: an interrupt stops the loop between two ticks only: when run()
\* returns 0 the tick that had started has run to its end, every event it
\* dispatched has its state update and a critical notification its flag
\* update and its action.
C16_InterruptBetweenTicks ==
    (tick.kind = "tick" /\ tick.exit = 0) => Complete(tick.ops)

\* C17: a tick whose shutdown action fails ends as every tick, with the
\* process running and critical_notification_sent true, and no later tick
\* of the calendar month sends the critical notification or calls the
\* action again.
C17_FailedActionNotRetried ==
    [][(tick' # tick /\ tick'.kind = "tick") =>
        /\ Failed(tick'.ops, "execute") # {} =>
                /\ running' /\ tick'.done
                /\ state'.critical_notification_sent
        /\ hist.execFailed =>
                /\ Count(tick'.ops, "CriticalReached") = 0
                /\ Count(tick'.ops, "execute") = 0]_vars

\* C20: a tick with the usage at or above critical_threshold and
\* critical_notification_sent false emits CriticalReached once, after the
\* threshold notifications, and sets the flag, whether the threshold step
\* of the tick notified no mark or many and whether its dispatches failed.
C20_CriticalIndependent ==
    (FullTick /\ IsCritical(threshold_config, tick.usage)
              /\ ~tick.before.critical_notification_sent) =>
        LET n == Count(tick.ops, "ThresholdCrossed")
                    + Count(tick.ops, "add_notified_threshold")
                    + Count(tick.ops, "DailyReport")
                    + Count(tick.ops, "set_last_daily_report_date")
        IN  /\ Count(tick.ops, "CriticalReached") = 1
            /\ Len(tick.ops) = n + 3
            /\ tick.ops[n + 1].op = "CriticalReached"
            /\ tick.ops[n + 2].op = "set_critical_notification_sent"
            /\ state.critical_notification_sent

\* a critical tick that crossed several marks, every dispatch failing
C20_Witness ==
    /\ FullTick
    /\ Count(tick.ops, "CriticalReached") = 1
    /\ Count(tick.ops, "ThresholdCrossed") >= 2
    /\ \A i \in 1..Len(tick.ops) :
            tick.ops[i].op = "ThresholdCrossed" => ~tick.ops[i].sent

\* the factor num / den that takes a size in a unit to GB
UnitFactor(kind) ==
    CASE kind = "GiB" -> [num |-> 1, den |-> 1]
      [] kind = "MiB" -> [num |-> 1, den |-> 1024]
      [] kind = "KiB" -> [num |-> 1, den |-> 1024 * 1024]
      [] kind = "TiB" -> [num |-> 1024, den |-> 1]

\* two fractions are the same number
SameSize(a, b) == a.num * b.den = b.num * a.den

\* a call of _parse_size_to_gb on "<value> <unit>" with a well-formed value
\* and one of the four units, in any case
ParsedKnownUnit ==
    /\ provider.called = "parse"
    /\ provider.value.ok
    /\ provider.sep # <<>>
    /\ provider.unit.kind # "other"

\* C18: _parse_size_to_gb converts '<value> <unit>' to GB by its unit: GiB
\* gives the value, MiB value/1024, KiB value/(1024*1024), TiB value*1024,
\* the unit matched in any case, and '0 GiB' gives 0.
C18_ParseSizeToGb ==
    ParsedKnownUnit =>
        /\ SameSize(provider.result,
                    [num |-> provider.value.num
                                * UnitFactor(provider.unit.kind).num,
                     den |-> provider.value.den
                                * UnitFactor(provider.unit.kind).den])
        /\ (provider.value.num = 0 => provider.result.num = 0)

\* 800 written with MIB in capitals has been parsed to 800/1024 GB
C18_Witness ==
    /\ ParsedKnownUnit
    /\ provider.value.num = 800
    /\ provider.unit.text = <<"M", "I", "B">>
    /\ provider.result.num * 1024 = 800 * provider.result.den

\* the rows of the current calendar month in an output of vnstat -m
CurrentMonthRows(lines) ==
    {i \in 1..Len(lines) : lines[i].month = ThisMonth /\ ~lines[i].estimated}

\* the total column of a row in GB, from the fraction and the unit it writes
TotalInGb(line) ==
    IF line.total.num = 0 THEN [num |-> 0, den |-> 1]
    ELSE [num |-> line.total.num * UnitFactor(line.unit.kind).num,
          den |-> line.total.den * UnitFactor(line.unit.kind).den]

\* C19: get_current_month_usage returns the total column (not rx, tx or the
\* estimated line) of the row of the current calendar month, in GB, and it
\* never returns the total of a row of another month.
C19_CurrentMonthTotal ==
    (provider.called = "usage" /\ ~provider.result.raised) =>
        /\ CurrentMonthRows(provider.lines) # {} =>
              \E i \in CurrentMonthRows(provider.lines) :
                  /\ \A j \in CurrentMonthRows(provider.lines) : i <= j
                  /\ SameSize(provider.result.gb, TotalInGb(provider.lines[i]))
        /\ provider.result.line # 0 =>
              provider.lines[provider.result.line].month = ThisMonth

\* the last write of the state file of a run reached the file
LastWriteSaved(ops) ==
    /\ \E i \in 1..Len(ops) : ops[i].op \in Saves
    /\ \A i \in 1..Len(ops) :
          (ops[i].op \in Saves /\ \A j \in (i + 1)..Len(ops) : ops[j].op \notin Saves)
              => ops[i].sent

\* C21: when a write of the state file fails the mutation stays in the
\* state in memory, so that the process does not emit the event again, the
\* tick goes on as a tick whose writes succeed, and the next write that
\* succeeds puts the whole state in memory, every unsaved mutation, in the
\* file.
C21_UnsavedStaysInMemory ==
    [][(tick' # tick /\ tick'.kind = "tick" /\ ~tick'.skipped) =>
        /\ running' /\ tick'.done /\ ~tick'.raised
        /\ Complete(tick'.ops)
        /\ Args(tick'.ops, "add_notified_threshold")
                \subseteq Elements(state'.notified_thresholds)
        /\ Elements(state.notified_thresholds)
                \subseteq Elements(state'.notified_thresholds)
        /\ Count(tick'.ops, "set_critical_notification_sent") > 0
                => state'.critical_notification_sent
        /\ Count(tick'.ops, "set_last_daily_report_date") > 0
                => state'.last_daily_report_date = Today
        /\ Args(tick'.ops, "ThresholdCrossed")
                \cap Elements(state.notified_thresholds) = {}
        /\ state.critical_notification_sent
                => Count(tick'.ops, "CriticalReached") = 0
        /\ LastWriteSaved(tick'.ops) => state_file' = SaveState(state')]_vars

\* the write of a mark failed, the write of the next mark succeeded, and the
\* file holds both
C21_Witness ==
    /\ FullTick
    /\ \E i, j \in 1..Len(tick.ops) :
            /\ i < j
            /\ tick.ops[i].op = "add_notified_threshold" /\ ~tick.ops[i].sent
            /\ tick.ops[j].op = "add_notified_threshold" /\ tick.ops[j].sent
            /\ tick.ops[i].arg \in Elements(state_file.content.notified_thresholds)
    /\ state_file = SaveState(state)

\* C22: within a tick the ThresholdCrossed events, the CriticalReached event
\* and the shutdown action come first and the DailyReport after them: no
\* DailyReport is dispatched before a threshold event of the same tick.
C22_ReportAfterThresholds ==
    FullTick =>
        \A i, j \in 1..Len(tick.ops) :
            (/\ tick.ops[i].op = "DailyReport"
             /\ tick.ops[j].op \in {"ThresholdCrossed", "CriticalReached",
                                    "execute"})
                => j < i

\* C23: the daily-report check runs on every tick that fetched the usage,
\* whether the tick crossed a mark or the critical threshold or nothing: in
\* the report hour, with reports enabled and last_daily_report_date not
\* today, the tick dispatches one DailyReport and records today.
C23_ReportOnEveryTick ==
    (/\ FullTick
     /\ reporting.enable_daily_report
     /\ tick.hour = DailyReportHour
     /\ tick.before.last_daily_report_date # Today) =>
        /\ Count(tick.ops, "DailyReport") = 1
        /\ state.last_daily_report_date = Today

\* C24: every value emitted as ThresholdCrossed or stored in
\* notified_thresholds is a mark k * interval with
\* 1 <= k <= floor(total_limit / interval): no mark above total_limit however
\* far the usage is above it, and none for the remainder of total_limit.
C24_ValidMarks ==
    LET valid == {k * threshold_config.interval :
                    k \in 1..(threshold_config.total_limit
                                \div threshold_config.interval)}
    IN  /\ Args(tick.ops, "ThresholdCrossed") \subseteq valid
        /\ Args(tick.ops, "add_notified_threshold") \subseteq valid
        /\ Elements(state.notified_thresholds) \subseteq valid
        /\ Elements(state_file.content.notified_thresholds) \subseteq valid
        /\ \A m \in Elements(state.notified_thresholds) :
                m <= threshold_config.total_limit

\* total_limit 5 and interval 2: a tick with the usage 6, above the limit,
\* has emitted 2 and 4 and nothing else
C24_Witness ==
    /\ FullTick
    /\ threshold_config.total_limit % threshold_config.interval # 0
    /\ tick.usage > threshold_config.total_limit
    /\ tick.usage >= 3 * threshold_config.interval
    /\ Cardinality(Args(tick.ops, "ThresholdCrossed")) = 2
    /\ Len(state.notified_thresholds) = 2

\* C25: the loop of run() goes on until it is cancelled: a tick whose fetch
\* fails, whose dispatches fail, whose shutdown action fails or whose writes
\* of the state file fail runs to its end and leaves the process running,
\* and so does a start whose startup notification fails; the process stops
\* only by the cancellation, which is no step of a tick.
C25_RunsUntilCancelled ==
    [][/\ (tick' # tick /\ tick'.kind = "tick") =>
                running' /\ tick'.done /\ tick'.exit = Off
       /\ tick'.kind = "start" => running'
       /\ (running /\ ~running') => tick' = Idle]_vars

\* a tick whose notifications and whose shutdown action failed has run to
\* its end and the process is running
C25_Witness ==
    /\ running
    /\ tick.kind = "tick" /\ tick.done
    /\ Failed(tick.ops, "ThresholdCrossed") # {}
    /\ Failed(tick.ops, "CriticalReached") # {}
    /\ Failed(tick.ops, "execute") # {}

\* C26: a start dispatches at most one StartupStatus, none when it is
\* disabled, and no tick dispatches one; the start does nothing else: no
\* other event, no shutdown action, and notified_thresholds,
\* critical_notification_sent and last_daily_report_date in memory and in
\* the file are as the load left them, also when the usage at the start is
\* at or above critical_threshold.
C26_StartupStatusOnly ==
    [][/\ (~running /\ running') =>
            /\ tick'.kind = "start"
            /\ Len(tick'.ops) <= 1
            /\ \A i \in 1..Len(tick'.ops) : tick'.ops[i].op = "StartupStatus"
            /\ ~reporting.enable_startup_notification => tick'.ops = <<>>
            /\ state' = LoadState(state_file, ThisMonth)
            /\ state_file' = state_file
       /\ tick'.kind = "tick" => Count(tick'.ops, "StartupStatus") = 0]_vars

\* a start with the usage at or above critical_threshold has sent the
\* StartupStatus, and critical_notification_sent is false
C26_Witness ==
    /\ tick.kind = "start"
    /\ Count(tick.ops, "StartupStatus") = 1
    /\ IsCritical(threshold_config, tick.usage)
    /\ ~state.critical_notification_sent
    /\ running

\* the fields a state file may lack
DefaultedKeys == {"version", "last_updated", "notified_thresholds",
                  "critical_notification_sent", "last_daily_report_date"}

\* a load of a file that is an object of this month
LoadedSameMonth ==
    /\ loaded.called
    /\ loaded.file.kind = "object"
    /\ "current_month" \in DOMAIN loaded.file.content
    /\ loaded.file.content["current_month"] = ThisMonth

\* C27: the load of a state file of this month that lacks some of version,
\* last_updated, notified_thresholds, critical_notification_sent and
\* last_daily_report_date gives a state with every field: a missing field
\* has its default (empty list, false, null), a field of the file its
\* value, and a field the program does not know is no error.
C27_MissingFieldsDefault ==
    LoadedSameMonth =>
        /\ StateKeys \subseteq DOMAIN loaded.state
        /\ \A k \in DOMAIN loaded.file.content :
                /\ k \in DOMAIN loaded.state
                /\ loaded.state[k] = loaded.file.content[k]
        /\ "notified_thresholds" \notin DOMAIN loaded.file.content
                => loaded.state["notified_thresholds"] = <<>>
        /\ "critical_notification_sent" \notin DOMAIN loaded.file.content
                => loaded.state["critical_notification_sent"] = FALSE
        /\ "last_daily_report_date" \notin DOMAIN loaded.file.content
                => loaded.state["last_daily_report_date"] = None
        /\ "version" \notin DOMAIN loaded.file.content
                => loaded.state["version"] = "1.0"
        /\ "last_updated" \notin DOMAIN loaded.file.content
                => loaded.state["last_updated"] = "now"

\* a file with the month, the date of the last report and an unknown field
\* only has been loaded
C27_Witness ==
    /\ LoadedSameMonth
    /\ DOMAIN loaded.file.content
            = {"current_month", "last_daily_report_date", "comment"}
    /\ loaded.state["last_daily_report_date"] = Today
    /\ loaded.state["notified_thresholds"] = <<>>
    /\ "comment" \in DOMAIN loaded.state

\* C28: a call of MultiNotifier.notify invokes each notifier once, in the
\* order in which the notifiers were added, and a notifier that failed is
\* not invoked again; with no notifier it invokes nothing and returns false.
C28_OnceInInsertionOrder ==
    dispatch.called =>
        /\ Len(dispatch.invoked) = Len(dispatch.notifiers)
        /\ \A i \in 1..Len(dispatch.invoked) :
                dispatch.invoked[i] = dispatch.notifiers[i]
        /\ Len(dispatch.results) = Len(dispatch.notifiers)
        /\ dispatch.notifiers = <<>> =>
                /\ dispatch.invoked = <<>>
                /\ ~dispatch.ret

\* discord was added before email; discord failed and email was invoked
\* after it, once each
C28_Witness ==
    /\ dispatch.called
    /\ dispatch.notifiers = <<"discord", "email">>
    /\ dispatch.outs = <<"fail", "ok">>
    /\ dispatch.invoked = <<"discord", "email">>

\* a configuration error: no notifier enabled, an enabled notifier without
\* a required field, or thresholds that are not positive
ConfigurationError ==
    \/ ~notifier_config.email.enabled /\ ~notifier_config.discord.enabled
    \/ notifier_config.email.enabled /\ notifier_config.email.missing # {}
    \/ notifier_config.discord.enabled /\ ~notifier_config.discord.webhook_url
    \/ threshold_config.interval <= 0
    \/ threshold_config.total_limit <= 0

\* C29: with a configuration error the process exits with a code that is
\* not 0 before the loop is entered: the monitor never runs, no tick is
\* evaluated and no notification or action is issued.
C29_ConfigErrorsFatal ==
    ConfigurationError =>
        /\ ~running
        /\ tick.kind \notin {"start", "tick"}
        /\ tick.ops = <<>>
        /\ tick.kind = "exit" => tick.exit > 0

\* C30: building the status summary or the daily report text, also when
\* the provider fails while the text is built, leaves notified_thresholds,
\* critical_notification_sent and last_daily_report_date as they were, in
\* memory and in the file, and emits no event and calls no action.
C30_PresentationOnly ==
    [][(tick' # tick /\ tick'.kind \in {"summary", "report"}) =>
        /\ state' = state
        /\ state_file' = state_file
        /\ tick'.ops = <<>>
        /\ running']_vars

\* a status summary built over a usage at or above critical_threshold,
\* with the trend failing, in a process that has notified nothing yet
C30_Witness ==
    /\ tick.kind = "summary"
    /\ tick.skipped
    /\ tick.text.critical
    /\ tick.text.next_threshold > 0
    /\ state.notified_thresholds = <<>>
    /\ ~state.critical_notification_sent

\* a list of numbers in strictly ascending order: no number twice
StrictlyAscending(list) ==
    \A i, j \in 1..Len(list) : i < j => list[i] < list[j]

\* every number of the list is a mark, and every mark below it is in the list
DownwardClosed(list, cfg) ==
    \A i \in 1..Len(list) :
        /\ list[i] > 0
        /\ list[i] % cfg.interval = 0
        /\ \A j \in 1..(list[i] \div cfg.interval) : InList(j * cfg.interval, list)

\* C31: from an empty state, after any ticks, with any usage, with dispatches
\* and writes of the state file that fail, notified_thresholds is in
\* ascending order without duplicates and holds, with a mark k * interval,
\* every mark j * interval with 1 <= j < k; so does the list in the file.
C31_DownwardClosed ==
    /\ StrictlyAscending(state.notified_thresholds)
    /\ DownwardClosed(state.notified_thresholds, threshold_config)
    /\ StrictlyAscending(state_file.content.notified_thresholds)
    /\ DownwardClosed(state_file.content.notified_thresholds, threshold_config)

\* a tick has added marks to marks recorded before it, the write of one of
\* them failed, and the three marks are recorded
C31_Witness ==
    /\ FullTick
    /\ tick.before.notified_thresholds # <<>>
    /\ Failed(tick.ops, "add_notified_threshold") # {}
    /\ state.notified_thresholds = <<2, 4, 6>>

\* C32: in a tick that handles the critical threshold the critical
\* notification is dispatched first, then critical_notification_sent is set
\* and its save attempted, then the shutdown action is executed: execute()
\* is called only with critical_notification_sent true in memory, whether
\* the save reached the file or not.
C32_CriticalOrder ==
    tick.kind = "tick" =>
        /\ \A i \in 1..Len(tick.ops) :
              tick.ops[i].op = "execute" =>
                  /\ i >= 3
                  /\ tick.ops[i - 1].op = "set_critical_notification_sent"
                  /\ tick.ops[i - 2].op = "CriticalReached"
                  /\ i = Len(tick.ops)
        /\ Count(tick.ops, "execute") > 0 =>
              /\ ~tick.before.critical_notification_sent
              /\ state.critical_notification_sent
        /\ (tick.done /\ Count(tick.ops, "CriticalReached") > 0) =>
              Count(tick.ops, "execute") = 1

\* the action was executed in a tick whose save of the flag failed: the flag
\* is true in memory and not in the file
C32_Witness ==
    /\ FullTick
    /\ Count(tick.ops, "execute") = 1
    /\ Failed(tick.ops, "set_critical_notification_sent") # {}
    /\ state.critical_notification_sent
    /\ ~state_file.content.critical_notification_sent

\* C33: the while loop of a tick ends, for every usage and every state the
\* program reaches: a tick that has started comes to its end; it dispatches
\* at most floor(total_limit / interval) ThresholdCrossed; and every
\* iteration that notifies records a mark that was not recorded before.
C33_LoopTerminates ==
    /\ [](tick.kind = "tick" =>
            Count(tick.ops, "ThresholdCrossed")
                <= IntDiv(threshold_config.total_limit,
                          threshold_config.interval))
    /\ [][(InLoop /\ InLoop') =>
            /\ Len(state'.notified_thresholds)
                    = Len(state.notified_thresholds) + 1
            /\ Elements(state.notified_thresholds)
                    \subseteq Elements(state'.notified_thresholds)]_vars
    /\ (InLoop ~> (tick.kind = "tick" /\ tick.done))

\* a tick over an empty state has notified the three marks, a dispatch and a
\* write failing on the way, and has ended
C33_Witness ==
    /\ FullTick
    /\ tick.before.notified_thresholds = <<>>
    /\ Count(tick.ops, "ThresholdCrossed") = 3
    /\ Failed(tick.ops, "ThresholdCrossed") # {}
    /\ Failed(tick.ops, "add_notified_threshold") # {}
    /\ ShouldNotify(threshold_config, tick.usage, state.notified_thresholds) = 0

\* the state of the file is not ahead of the state st: its marks are marks
\* of st, and its flag is set only if the flag of st is
NotAhead(file, st) ==
    /\ Elements(file.content.notified_thresholds)
            \subseteq Elements(st.notified_thresholds)
    /\ file.content.critical_notification_sent => st.critical_notification_sent

\* C34 as it is stated: at every point of a running process the marks of a
\* readable state file are marks of the state in memory, and the flag of
\* the file is set only if the flag in memory is.
C34_NeverAhead ==
    (running /\ state_file.exists /\ state_file.valid) =>
        NotAhead(state_file, state)

\* C34: no tick makes the state file run ahead of the state in memory; after
\* a tick whose last write succeeded the file holds the state in memory,
\* field by field; and a start over a readable file of this month leaves
\* memory and file equal.  A start over a file of an earlier month resets
\* the state in memory and leaves the file as it is.
C34_FileNotAhead ==
    [][/\ (running /\ running' /\ NotAhead(state_file, state))
            => NotAhead(state_file', state')
       /\ (tick' # tick /\ tick'.kind = "tick" /\ tick'.done
                /\ LastWriteSaved(tick'.ops))
            => state_file' = SaveState(state')
       /\ (~running /\ running')
            => /\ state_file' = state_file
               /\ state' = LoadState(state_file, ThisMonth)
               /\ (/\ state_file.exists /\ state_file.valid
                   /\ state_file.content.current_month = ThisMonth)
                    => state' = state_file'.content]_vars

\* after a tick whose write of a mark failed the file is behind the state
\* in memory
C34_Witness ==
    /\ FullTick
    /\ running
    /\ state_file.exists /\ state_file.valid
    /\ Failed(tick.ops, "add_notified_threshold") # {}
    /\ NotAhead(state_file, state)
    /\ Len(state_file.content.notified_thresholds)
            < Len(state.notified_thresholds)

\* C35: a tick whose usage is lower than the usage of an earlier tick of the
\* same calendar month emits no ThresholdCrossed for a recorded mark and no
\* CriticalReached while the flag is set, and so emits nothing and calls no
\* action; notified_thresholds and critical_notification_sent are as they
\* were, the recorded marks above the usage of the tick included.
C35_LowerUsage ==
    [][(/\ tick'.kind = "tick" /\ tick'.done /\ ~tick'.skipped
        /\ tick'.usage < hist.seen) =>
        /\ Args(tick'.ops, "ThresholdCrossed")
                \cap Elements(state.notified_thresholds) = {}
        /\ state.critical_notification_sent
                => Count(tick'.ops, "CriticalReached") = 0
        /\ Count(tick'.ops, "ThresholdCrossed") = 0
        /\ Count(tick'.ops, "CriticalReached") = 0
        /\ Count(tick'.ops, "execute") = 0
        /\ state'.notified_thresholds = state.notified_thresholds
        /\ state'.critical_notification_sent = state.critical_notification_sent
        /\ {m \in Elements(state.notified_thresholds) : m > tick'.usage}
                \subseteq Elements(state'.notified_thresholds)]_vars

\* every notifier raises an exception
AllRaise(ns) == [i \in 1..Len(ns) |-> "raise"]

\* the step is a tick that fetched the usage and ran to its end, with the
\* report's own fetch returning (rok) or raising and the notifiers doing outs
TickWith(rok, outs) ==
    \E act \in ActionOutcomes :
        Tick(tick'.usage, TRUE, rok, outs, act, NoCrash)

\* in the step the thresholds and the critical threshold were evaluated
Evaluated ==
    /\ Args(tick'.ops, "ThresholdCrossed")
            = {m \in Marks(threshold_config) :
                    m <= tick'.usage
                    /\ m \notin Elements(state.notified_thresholds)}
    /\ Args(tick'.ops, "ThresholdCrossed")
            \subseteq Elements(state'.notified_thresholds)
    /\ (IsCritical(threshold_config, tick'.usage)
            /\ ~state.critical_notification_sent)
         => /\ Count(tick'.ops, "CriticalReached") = 1
            /\ Count(tick'.ops, "execute") = 1
            /\ state'.critical_notification_sent

\* a report is due after the step as well
ReportDueAfter ==
    /\ reporting.enable_daily_report
    /\ state'.last_daily_report_date # Today
    /\ hour' = DailyReportHour

NoStateToLoad == ~state_file.exists \/ ~state_file.valid

LegacyDue(list, usage) ==
    {m \in Marks(threshold_config) : m <= usage /\ m \notin Elements(list)}

C38_LegacyOneMarkPerTick ==
    /\ StrictlyAscending(legacy.state.notified_thresholds)
    /\ legacy.criticals <= 1
    /\ legacy.executes <= 1
    /\ legacy.kind = "tick" =>
        LET emitted == Events(legacy.ops, "ThresholdCrossed")
            due == LegacyDue(legacy.before.notified_thresholds, legacy.usage)
        IN  /\ Len(emitted) <= 1
            /\ (legacy.skipped \/ due = {}) =>
                    /\ Len(emitted) = 0
                    /\ legacy.state.notified_thresholds
                        = legacy.before.notified_thresholds
            /\ (~legacy.skipped /\ due # {}) =>
                    /\ Len(emitted) = 1
                    /\ emitted[1].arg \in due
                    /\ \A m \in due : emitted[1].arg <= m
                    /\ legacy.state.notified_thresholds
                        = Append(legacy.before.notified_thresholds,
                                 emitted[1].arg)
                    /\ Cardinality(LegacyDue(legacy.state.notified_thresholds,
                                             legacy.usage))
                        = Cardinality(due) - 1

\* the usage is over all three marks and critical; the first mark and the
\* critical notification went out in an earlier tick, this tick notified the
\* second mark only, and the third is still due
C38_Witness ==
    /\ legacy.kind = "tick"
    /\ ~legacy.skipped
    /\ legacy.usage = 6
    /\ legacy.before.notified_thresholds = <<2>>
    /\ Args(legacy.ops, "ThresholdCrossed") = {4}
    /\ LegacyDue(legacy.state.notified_thresholds, legacy.usage) = {6}
    /\ legacy.before.critical_notification_sent
    /\ Count(legacy.ops, "CriticalReached") = 0
    /\ legacy.criticals = 1
    /\ legacy.executes = 1

====
